---------------------------- MODULE Spec2Model ----------------------------
(***************************************************************************)
(* A model of the web-acquisition part of the rust_parser crate:           *)
(*   - the batch crawler (ffi.rs: crawl_batch_ffi, fetch_and_extract),     *)
(*   - the robots.txt cache (robots.rs: RobotsCache),                      *)
(*   - the recursive sitemap fetch (sitemap.rs, ffi.rs:                    *)
(*     fetch_sitemap_simple_inner).                                        *)
(* Each part has its own specification over its own variables; the        *)
(* variables of the other parts stay at their initial values.              *)
(***************************************************************************)
EXTENDS Integers, Sequences, FiniteSets, TLC

VARIABLES
    \* ---- batch crawl (ffi.rs 345-526) ----
    request,      \* BatchCrawlRequest: [urls, concurrency, delay_ms]
    pc,           \* position of each fetch_and_extract future
    wake,         \* deadline of the tokio::time::sleep of each future
    now,          \* the monotonic clock (std::time::Instant), in ticks
    limiter,      \* DomainRateLimiter: domain -> last access (NoTime: absent)
    mutex,        \* holder of the tokio Mutex around the limiter (0: free)
    resp,         \* status and content type kept between send and body read
    results,      \* Vec<CrawlResult> collected in completion order
    dispatched,   \* history: the time each GET was sent (NoTime: not yet)
    \* ---- buffer_unordered seen as a pool of anonymous futures ----
    pool,         \* [concurrency, queued, pacing, fetching, done]
    \* ---- robots cache (robots.rs) ----
    cache,        \* RobotsCache.cache: domain -> CachedRobots (NoEntry: absent)
    rclock,       \* the monotonic clock, in seconds
    nadv,         \* how many times the clock has advanced
    caller,       \* each thread inside check_blocking: [pc, url, ua]
    last,         \* what the step just taken returned from check_blocking:
                  \* [via, url, ua, resp, ret] (NoReturn: the step returned nothing)
    robotsLog,    \* history: the robots.txt requests issued, [domain, at]
    \* ---- sitemap fetch (sitemap.rs 132-218, ffi.rs 576-636) ----
    smReq,        \* SitemapRequest: [url, recursive, max_depth, discover_from_robots]
    web,          \* what the server holds at each sitemap URL (Unknown: not asked yet)
    smRobots,     \* the answer to GET robots.txt (NoResponse: never requested)
    roots,        \* sitemap_urls (ffi.rs 593-609)
    rootIdx,      \* the position of the for loop over sitemap_urls (ffi.rs 617)
    stack,        \* the calls of fetch_sitemap_internal_ureq in progress, outermost first
    combined,     \* the SitemapResult that fetch_sitemap_simple_inner builds
    fetchLog,     \* history: the sitemap GETs issued, [url, depth]
    smPc,         \* "discover", "roots" or "done"
    \* ---- RobotsCache::extract_crawl_delay called on its own (robots.rs 131-164) ----
    rtText,       \* robots_txt, as line records
    rtAgent,      \* user_agent
    rtDelay,      \* the Option<f64> returned (NotCalled before the call)
    \* ---- the extern "C" boundary (ffi.rs) ----
    bIn,          \* the arguments: [html_utf8, request_utf8, request_json_ok]
    bEnv,         \* what happens inside: [client_ok, runtime_ok, panics, serialize_ok]
    bOp,          \* the boundary operation that was called ("" before the call)
    bRet,         \* what the caller gets back (Pending before the call)
    bEffects,     \* what the call did: subset of {"extraction", "network"}
    \* ---- extract_single called on its own (extractors.rs 216-247) ----
    xSpec,        \* the ExtractSpec: [yields, alternatives]
    xCalled,      \* extract_single has returned
    xResult,      \* the Option<String> returned
    xEvaluated,   \* history: the specs whose source was evaluated, in order
    \* ---- the indexes built from a document (extractors.rs 251-426) ----
    html,         \* the document: [scripts, scopes, metas]
    jsonld,       \* extract_jsonld_objects(document): type name -> items (NotBuilt before)
    microdata,    \* extract_microdata(document): type name -> items (NotBuilt before)
    og,           \* extract_opengraph(document) of extractors.rs (NotBuilt before)
    ogGrouped,    \* the og map of extractors/opengraph_extractor.rs (NotBuilt before)
    \* value_to_string and the sources of extract_single
    tSpec,          \* [source, return_text] of the ExtractSpec
    tFound,         \* the value the path leads to in the data of the source
    tOut,           \* the Option<String> extract_single returns
    \* parse_sitemap
    xml,            \* the document: its elements and the place where it is malformed
    parsed,         \* the SitemapResult parse_sitemap returns
    \* the JS-literal evaluator
    jsInit,         \* the initialiser of a variable declaration
    jsBound,        \* the binding the declaration gives: None, or Some value
    \* extract_microdata on a tree of elements
    mdDoc,          \* the elements of the document in document order, each with its parent
    mdIndex,        \* the microdata index built from it
    \* extract_all: the loop over the specs of a request
    eaSpecs,        \* the specs, each with the Option<String> extract_single gives for it
    eaResult,       \* the ExtractionResult: values and expanded_values
    \* parse_sitemap on nested elements
    nestedDoc,      \* the elements under <urlset>, each with the elements in it
    nestedParsed    \* what parse_sitemap returned for them

crawlVars == <<request, pc, wake, now, limiter, mutex, resp, results, dispatched>>
poolVars == <<pool>>
robotsVars == <<cache, rclock, nadv, caller, last, robotsLog>>
sitemapVars == <<smReq, web, smRobots, roots, rootIdx, stack, combined, fetchLog, smPc>>
delayVars == <<rtText, rtAgent, rtDelay>>
boundaryVars == <<bIn, bEnv, bOp, bRet, bEffects>>
coalesceVars == <<xSpec, xCalled, xResult, xEvaluated>>
indexVars == <<html, jsonld, microdata, og, ogGrouped>>
textVars == <<tSpec, tFound, tOut>>
parseVars == <<xml, parsed>>
jsVars == <<jsInit, jsBound>>
scopeVars == <<mdDoc, mdIndex>>
allVars == <<eaSpecs, eaResult>>
nestedVars == <<nestedDoc, nestedParsed>>
vars == <<crawlVars, poolVars, robotsVars, sitemapVars, delayVars, boundaryVars, coalesceVars, indexVars, textVars, parseVars, jsVars, scopeVars, allVars, nestedVars>>

notCrawlVars == <<poolVars, robotsVars, sitemapVars, delayVars, boundaryVars, coalesceVars, indexVars, textVars, parseVars, jsVars, scopeVars, allVars, nestedVars>>
notPoolVars == <<crawlVars, robotsVars, sitemapVars, delayVars, boundaryVars, coalesceVars, indexVars, textVars, parseVars, jsVars, scopeVars, allVars, nestedVars>>
notRobotsVars == <<crawlVars, poolVars, sitemapVars, delayVars, boundaryVars, coalesceVars, indexVars, textVars, parseVars, jsVars, scopeVars, allVars, nestedVars>>
notSitemapVars == <<crawlVars, poolVars, robotsVars, delayVars, boundaryVars, coalesceVars, indexVars, textVars, parseVars, jsVars, scopeVars, allVars, nestedVars>>
notDelayVars == <<crawlVars, poolVars, robotsVars, sitemapVars, boundaryVars, coalesceVars, indexVars, textVars, parseVars, jsVars, scopeVars, allVars, nestedVars>>
notBoundaryVars == <<crawlVars, poolVars, robotsVars, sitemapVars, delayVars, coalesceVars, indexVars, textVars, parseVars, jsVars, scopeVars, allVars, nestedVars>>
notCoalesceVars == <<crawlVars, poolVars, robotsVars, sitemapVars, delayVars, boundaryVars, indexVars, textVars, parseVars, jsVars, scopeVars, allVars, nestedVars>>
notIndexVars == <<crawlVars, poolVars, robotsVars, sitemapVars, delayVars, boundaryVars, coalesceVars, textVars, parseVars, jsVars, scopeVars, allVars, nestedVars>>
notTextVars == <<crawlVars, poolVars, robotsVars, sitemapVars, delayVars, boundaryVars, coalesceVars, indexVars, parseVars, jsVars, scopeVars, allVars, nestedVars>>
notParseVars == <<crawlVars, poolVars, robotsVars, sitemapVars, delayVars, boundaryVars, coalesceVars, indexVars, textVars, jsVars, scopeVars, allVars, nestedVars>>
notJsVars == <<crawlVars, poolVars, robotsVars, sitemapVars, delayVars, boundaryVars, coalesceVars, indexVars, textVars, parseVars, scopeVars, allVars, nestedVars>>
notScopeVars == <<crawlVars, poolVars, robotsVars, sitemapVars, delayVars, boundaryVars, coalesceVars, indexVars, textVars, parseVars, jsVars, allVars, nestedVars>>
notAllVars == <<crawlVars, poolVars, robotsVars, sitemapVars, delayVars, boundaryVars, coalesceVars, indexVars, textVars, parseVars, jsVars, scopeVars, nestedVars>>
notNestedVars == <<crawlVars, poolVars, robotsVars, sitemapVars, delayVars, boundaryVars, coalesceVars, indexVars, textVars, parseVars, jsVars, scopeVars, allVars>>

-----------------------------------------------------------------------------
(* Bounds of the model *)

\* number of URLs of a batch in the detailed crawl model
NUrls == 3
\* the clock may always advance up to this tick (and further while a sleep is pending)
MaxTime == 2
\* largest delay_ms of a request, in ticks
MaxDelay == 2
\* largest number of URLs of a batch in the pool model
MaxPoolUrls == 34
\* number of threads that share one RobotsCache
NCallers == 2
\* number of times the robots clock advances
MaxAdvances == 2
\* largest max_depth of a sitemap request
MaxDepth == 2
\* largest number of child references in one sitemap index
MaxChildren == 2
\* largest number of lines of a robots.txt given to extract_crawl_delay
MaxLines == 4
\* largest number of alternatives of one ExtractSpec
MaxAlternatives == 2
\* largest number of elements of a JSON array in a JSON-LD block
MaxItems == 2
\* largest number of [itemscope] elements, and of meta tags, in a document
MaxTags == 3
\* largest number of elements under the root of a sitemap document
MaxElements == 2
\* largest number of properties of an object literal
MaxProps == 2
\* largest number of elements of a microdata document
MaxNodes == 3
\* largest number of specs of an extraction request
MaxSpecs == 2
\* the elements in an entry of a nested sitemap document
MaxFields == 2

-----------------------------------------------------------------------------
(* Values *)

NoTime == -1

Min(a, b) == IF a < b THEN a ELSE b
Max(a, b) == IF a > b THEN a ELSE b

\* The URLs a batch is drawn from: two spellings of one host, and another host.
CrawlUrls == {"http://EX.com/a", "http://ex.com/b", "http://other.org/"}

\* The URLs the robots check is asked about: two spellings of one host, and a
\* string url::Url::parse rejects.
RobotsUrls == {"http://EX.com/private", "http://ex.com/b", "not a url"}

\* The sitemap URLs of the model; SitemapUrls[i] is the i-th.
SitemapUrls == <<"http://ex.com/s1.xml", "http://ex.com/s2.xml", "http://ex.com/s3.xml">>

\* url::Url::parse: Ok for every URL of the model but one
parse_ok(u) == u # "not a url"

\* url::Url::host_str: the host as written in the URL
host_str(u) ==
    CASE u \in {"http://EX.com/a", "http://EX.com/private"} -> "EX.com"
      [] u \in {"http://ex.com/b", "http://ex.com/s1.xml", "http://ex.com/s2.xml",
                "http://ex.com/s3.xml"} -> "ex.com"
      [] u = "http://other.org/" -> "other.org"
      [] OTHER -> ""

\* the path of a URL, which the robots rules are matched against
path_of(u) ==
    CASE u = "http://EX.com/a" -> "/a"
      [] u = "http://EX.com/private" -> "/private"
      [] u = "http://ex.com/b" -> "/b"
      [] u = "http://ex.com/s1.xml" -> "/s1.xml"
      [] u = "http://ex.com/s2.xml" -> "/s2.xml"
      [] u = "http://ex.com/s3.xml" -> "/s3.xml"
      [] OTHER -> "/"

\* (a variant that keeps the case of the host)
to_lowercase_identity(h) == h
\* str::to_lowercase on the host names of the model
to_lowercase(h) == IF h = "EX.com" THEN "ex.com" ELSE h

\* ffi.rs extract_domain: lowercased host, "" when the URL has none
extract_domain(u) == to_lowercase(host_str(u))

Domains == {extract_domain(u) : u \in CrawlUrls}

\* the concurrency values a request may carry (usize): 0, small ones, and above the cap
ConcurrencyValues == {0, 1, 2, 40}

MaxConcurrency == 32

\* ffi.rs 497: request.concurrency.max(1).min(32)
\* (a variant without the cap of 32)
EffectiveConcurrencyNoCap(c) == Max(c, 1)
EffectiveConcurrency(c) == Min(Max(c, 1), MaxConcurrency)


-----------------------------------------------------------------------------
(* Batch crawl: crawl_batch_ffi and fetch_and_extract *)

Tasks == 1..NUrls

\* HTTP statuses a server answers with
Statuses == {200, 404}

\* a future that has been polled at least once and has not produced its result
InFlight(t) == pc[t] \notin {"queued", "done"}

NumInFlight == Cardinality({t \in Tasks : InFlight(t)})

\* CrawlResult (ffi.rs 328-336), without the body and the timing
CrawlResult(url, status, error) == [url |-> url, status |-> status, error |-> error]

\* The URL lists of a batch: every list over CrawlUrls that starts with the
\* first spelling of the shared host.
UrlLists == {l \in [Tasks -> CrawlUrls] : l[1] = "http://EX.com/a"}

InitCrawlVars ==
    /\ request \in [urls : UrlLists,
                    concurrency : ConcurrencyValues,
                    delay_ms : {0, MaxDelay}]
    /\ pc = [t \in Tasks |-> "queued"]
    /\ wake = [t \in Tasks |-> NoTime]
    /\ now = 0
    /\ limiter = [d \in Domains |-> NoTime]
    /\ mutex = 0
    /\ resp = [t \in Tasks |-> 0]
    /\ results = <<>>
    /\ dispatched = [t \in Tasks |-> NoTime]

IdleCrawlVars ==
    /\ request = [urls |-> <<>>, concurrency |-> 0, delay_ms |-> 0]
    /\ pc = <<>>
    /\ wake = <<>>
    /\ now = 0
    /\ limiter = <<>>
    /\ mutex = 0
    /\ resp = <<>>
    /\ results = <<>>
    /\ dispatched = <<>>

\* ffi.rs 502-509: buffer_unordered takes the next future from the stream, in
\* list order, while fewer than `concurrency` are in progress, and polls it.
\* ffi.rs 352-356: with delay_ms = 0 the future goes straight to the GET.
StartTask(t) ==
    /\ pc[t] = "queued"
    /\ \A s \in Tasks : s < t => pc[s] # "queued"
    /\ NumInFlight < EffectiveConcurrency(request.concurrency)
    /\ IF request.delay_ms > 0
       THEN /\ pc' = [pc EXCEPT ![t] = "lock1"]
            /\ UNCHANGED dispatched
       ELSE /\ pc' = [pc EXCEPT ![t] = "send"]
            /\ dispatched' = [dispatched EXCEPT ![t] = now]
    /\ UNCHANGED <<request, wake, now, limiter, mutex, resp, results>>

\* ffi.rs 360: rate_limiter.lock().await
LockForRead(t) ==
    /\ pc[t] = "lock1"
    /\ mutex = 0
    /\ mutex' = t
    /\ pc' = [pc EXCEPT ![t] = "read"]
    /\ UNCHANGED <<request, wake, now, limiter, resp, results, dispatched>>

\* (a variant that never waits)
wait_time_none(last_access, delay) == 0
\* ffi.rs 361-370: Some(delay - elapsed) when the domain was accessed less than
\* delay_ms ago, None otherwise (0 stands for None)
wait_time(last_access, delay) ==
    IF last_access # NoTime /\ now - last_access < delay
    THEN delay - (now - last_access) ELSE 0

\* (a variant that keeps the guard over the sleep)
ReadLastHolding(t) ==
    /\ pc[t] = "read"
    /\ mutex = t
    /\ LET w == wait_time(limiter[extract_domain(request.urls[t])], request.delay_ms)
       IN IF w > 0
          THEN /\ pc' = [pc EXCEPT ![t] = "sleep"]
               /\ wake' = [wake EXCEPT ![t] = now + w]
               /\ UNCHANGED mutex
          ELSE /\ pc' = [pc EXCEPT ![t] = "lock2"]
               /\ mutex' = 0
               /\ UNCHANGED wake
    /\ UNCHANGED <<request, now, limiter, resp, results, dispatched>>

\* ffi.rs 361-375: read the last access, drop the guard, start the sleep if any
ReadLast(t) ==
    /\ pc[t] = "read"
    /\ mutex = t
    /\ LET w == wait_time(limiter[extract_domain(request.urls[t])], request.delay_ms)
       IN IF w > 0
          THEN /\ pc' = [pc EXCEPT ![t] = "sleep"]
               /\ wake' = [wake EXCEPT ![t] = now + w]
          ELSE /\ pc' = [pc EXCEPT ![t] = "lock2"]
               /\ UNCHANGED wake
    /\ mutex' = 0
    /\ UNCHANGED <<request, now, limiter, resp, results, dispatched>>

\* ffi.rs 374: tokio::time::sleep(wait) completes at or after its deadline
WakeUp(t) ==
    /\ pc[t] = "sleep"
    /\ now >= wake[t]
    /\ pc' = [pc EXCEPT ![t] = "lock2"]
    /\ wake' = [wake EXCEPT ![t] = NoTime]
    /\ UNCHANGED <<request, now, limiter, mutex, resp, results, dispatched>>

\* ffi.rs 379: rate_limiter.lock().await
LockForInsert(t) ==
    /\ pc[t] = "lock2"
    /\ mutex = 0
    /\ mutex' = t
    /\ pc' = [pc EXCEPT ![t] = "insert"]
    /\ UNCHANGED <<request, wake, now, limiter, resp, results, dispatched>>

\* (a variant that keeps the guard after the insert)
InsertAndSendHolding(t) ==
    /\ pc[t] = "insert"
    /\ mutex = t
    /\ limiter' = [limiter EXCEPT ![extract_domain(request.urls[t])] = now]
    /\ dispatched' = [dispatched EXCEPT ![t] = now]
    /\ pc' = [pc EXCEPT ![t] = "send"]
    /\ UNCHANGED <<request, wake, now, resp, results, mutex>>

\* ffi.rs 380-384: insert Instant::now(), drop the guard, send the GET (no
\* await lies between the insert and the first poll of send())
InsertAndSend(t) ==
    /\ pc[t] = "insert"
    /\ mutex = t
    /\ limiter' = [limiter EXCEPT ![extract_domain(request.urls[t])] = now]
    /\ mutex' = 0
    /\ dispatched' = [dispatched EXCEPT ![t] = now]
    /\ pc' = [pc EXCEPT ![t] = "send"]
    /\ UNCHANGED <<request, wake, now, resp, results>>

\* (a variant that loses the result of a failed send)
SendErrorResultDropped(t) == results
\* ffi.rs 425-433: send() failed (connection error or timeout): status 0
SendErrorResult(t) == Append(results, CrawlResult(request.urls[t], 0, "send"))

\* ffi.rs 384-393, 425-433
Respond(t) ==
    /\ pc[t] = "send"
    /\ \/ /\ results' = SendErrorResult(t)
          /\ pc' = [pc EXCEPT ![t] = "done"]
          /\ UNCHANGED resp
       \/ \E s \in Statuses :
            /\ resp' = [resp EXCEPT ![t] = s]
            /\ pc' = [pc EXCEPT ![t] = "body"]
            /\ UNCHANGED results
    /\ UNCHANGED <<request, wake, now, limiter, mutex, dispatched>>

\* ffi.rs 394-423: the body is read (any status), or the read fails and the
\* status is kept with an error message
ReadBody(t) ==
    /\ pc[t] = "body"
    /\ \E e \in {"none", "body"} :
         results' = Append(results, CrawlResult(request.urls[t], resp[t], e))
    /\ resp' = [resp EXCEPT ![t] = 0]
    /\ pc' = [pc EXCEPT ![t] = "done"]
    /\ UNCHANGED <<request, wake, now, limiter, mutex, dispatched>>

\* The clock advances; past MaxTime only while a sleep still waits for it.
\* Only the pacing reads the clock (ffi.rs 355-382): it stands still when
\* delay_ms = 0.
Tick ==
    /\ request.delay_ms > 0
    /\ \/ now < MaxTime
       \/ \E t \in Tasks : pc[t] = "sleep" /\ wake[t] > now
    /\ now' = now + 1
    /\ UNCHANGED <<request, pc, wake, limiter, mutex, resp, results, dispatched>>

NextCrawl ==
    \/ \E t \in Tasks : StartTask(t) /\ UNCHANGED notCrawlVars
    \/ \E t \in Tasks : LockForRead(t) /\ UNCHANGED notCrawlVars
    \/ \E t \in Tasks : ReadLast(t) /\ UNCHANGED notCrawlVars
    \/ \E t \in Tasks : WakeUp(t) /\ UNCHANGED notCrawlVars
    \/ \E t \in Tasks : LockForInsert(t) /\ UNCHANGED notCrawlVars
    \/ \E t \in Tasks : InsertAndSend(t) /\ UNCHANGED notCrawlVars
    \/ \E t \in Tasks : Respond(t) /\ UNCHANGED notCrawlVars
    \/ \E t \in Tasks : ReadBody(t) /\ UNCHANGED notCrawlVars
    \/ Tick /\ UNCHANGED notCrawlVars

\* ffi.rs 510-514: collect() has every result; the response is built
BatchDone == \A t \in Tasks : pc[t] = "done"

-----------------------------------------------------------------------------
(* buffer_unordered as a pool: the futures are anonymous, only their number *)
(* in each phase is kept, so that batches longer than the cap of 32 fit.    *)

InitPool ==
    pool \in [concurrency : ConcurrencyValues \cup {31, 32, 33},
              queued : {0, 1, MaxPoolUrls - 1, MaxPoolUrls},
              pacing : {0}, fetching : {0}, done : {0}]

IdlePool == pool = [concurrency |-> 0, queued |-> 0, pacing |-> 0, fetching |-> 0, done |-> 0]

PoolInFlight == pool.pacing + pool.fetching

\* ffi.rs 502-509: the next future is taken while fewer than `concurrency` run
PoolStart ==
    /\ pool.queued > 0
    /\ PoolInFlight < EffectiveConcurrency(pool.concurrency)
    /\ \/ pool' = [pool EXCEPT !.queued = @ - 1, !.pacing = @ + 1]
       \/ pool' = [pool EXCEPT !.queued = @ - 1, !.fetching = @ + 1]

\* ffi.rs 373-384: the pacing is over, the GET is sent
PoolDispatch ==
    /\ pool.pacing > 0
    /\ pool' = [pool EXCEPT !.pacing = @ - 1, !.fetching = @ + 1]

\* ffi.rs 384-434: the future returns its CrawlResult
PoolComplete ==
    /\ pool.fetching > 0
    /\ pool' = [pool EXCEPT !.fetching = @ - 1, !.done = @ + 1]

NextPool ==
    \/ PoolStart /\ UNCHANGED notPoolVars
    \/ PoolDispatch /\ UNCHANGED notPoolVars
    \/ PoolComplete /\ UNCHANGED notPoolVars

-----------------------------------------------------------------------------
(* robots.txt: texts and the functions over them *)

\* A robots.txt text is a sequence of lines [k, v]: the directive name as
\* written and its value. NoText is the empty string.
NoText == <<>>

\* The text the server of the model holds.
TextA ==
    << [k |-> "User-agent",  v |-> "BadBot"],
       [k |-> "Disallow",    v |-> "/private"],
       [k |-> "Crawl-delay", v |-> "5"],
       [k |-> "User-Agent",  v |-> "*"],
       [k |-> "Crawl-delay", v |-> "1"],
       [k |-> "SITEMAP",     v |-> "http://ex.com/s2.xml"],
       [k |-> "Sitemap",     v |-> "http://ex.com/s3.xml"] >>

UserAgents == {"GoodBot/1.0", "BadBot/2.0"}

\* str::to_lowercase on directive names, agent tokens and user agents
lower(x) ==
    CASE x \in {"User-agent", "User-Agent", "user-agent"} -> "user-agent"
      [] x \in {"Crawl-delay", "crawl-delay"} -> "crawl-delay"
      [] x \in {"Sitemap", "SITEMAP", "sitemap"} -> "sitemap"
      [] x \in {"Disallow", "disallow"} -> "disallow"
      [] x \in {"Allow", "allow"} -> "allow"
      [] x \in {"BadBot", "badbot"} -> "badbot"
      [] x \in {"GoodBot", "goodbot"} -> "goodbot"
      [] x = "GoodBot/1.0" -> "goodbot/1.0"
      [] x = "BadBot/2.0" -> "badbot/2.0"
      [] OTHER -> x

\* str::contains(agent) on the lowercased user agents of the model
contains(ua_lower, agent) ==
    \/ agent = ""
    \/ agent = ua_lower
    \/ agent = "bot"
    \/ agent = "goodbot" /\ ua_lower = "goodbot/1.0"
    \/ agent = "badbot" /\ ua_lower = "badbot/2.0"

NoDelay == -1

\* str::parse::<f64> on the Crawl-delay values of the model (NoDelay: Err)
parse_f64(v) ==
    CASE v = "0" -> 0
      [] v = "1" -> 1
      [] v = "5" -> 5
      [] v = "9" -> 9
      [] OTHER -> NoDelay

\* robots.rs 136-161: the loop of extract_crawl_delay from line i on
RECURSIVE crawl_delay_loop(_, _, _, _, _)
crawl_delay_loop(text, i, ua_lower, in_matching_section, default_delay) ==
    IF i > Len(text) THEN default_delay
    ELSE IF lower(text[i].k) = "user-agent"
         THEN LET agent == lower(text[i].v)
              IN crawl_delay_loop(text, i + 1, ua_lower,
                                  agent = "*" \/ contains(ua_lower, agent),
                                  default_delay)
    ELSE IF lower(text[i].k) = "crawl-delay" /\ parse_f64(text[i].v) # NoDelay
         THEN IF in_matching_section
              THEN parse_f64(text[i].v)
              ELSE crawl_delay_loop(text, i + 1, ua_lower, in_matching_section,
                                    IF default_delay = NoDelay
                                    THEN parse_f64(text[i].v) ELSE default_delay)
    ELSE crawl_delay_loop(text, i + 1, ua_lower, in_matching_section, default_delay)

\* robots.rs 131-164
extract_crawl_delay(text, user_agent) ==
    crawl_delay_loop(text, 1, lower(user_agent), FALSE, NoDelay)

\* robots.rs 167-180: the value of every Sitemap line, in order
RECURSIVE extract_sitemaps_from(_, _)
extract_sitemaps_from(text, i) ==
    IF i > Len(text) THEN <<>>
    ELSE IF lower(text[i].k) = "sitemap"
         THEN <<text[i].v>> \o extract_sitemaps_from(text, i + 1)
         ELSE extract_sitemaps_from(text, i + 1)

extract_sitemaps(text) == extract_sitemaps_from(text, 1)

\* --- texting_robots::Robot, as robots.rs 92-94 and 119-121 use it ---

\* the agent token of the section line i lies in ("" before any User-agent line)
section_agent(text, i) ==
    LET before == {j \in 1..(i - 1) : lower(text[j].k) = "user-agent"}
    IN IF before = {} THEN ""
       ELSE lower(text[CHOOSE j \in before : \A j2 \in before : j2 <= j].v)

\* a rule value matches a path when it is a prefix of it
rule_matches(rule, path) == rule = "/" \/ rule = path

rule_length(rule) == IF rule = "/" THEN 1 ELSE 8

\* Robot::new(user_agent, text).allowed(url): the rules of the sections naming
\* the agent, or of the * sections when none names it; the longest matching
\* rule decides, Allow winning a tie; no matching rule allows.
robot_allowed(user_agent, text, url) ==
    LET ua == lower(user_agent)
        named == {i \in DOMAIN text : lower(text[i].k) = "user-agent"
                                        /\ lower(text[i].v) # "*"
                                        /\ lower(text[i].v) # ""
                                        /\ contains(ua, lower(text[i].v))}
        applies(i) == IF named # {}
                      THEN section_agent(text, i) # "*" /\ section_agent(text, i) # ""
                           /\ contains(ua, section_agent(text, i))
                      ELSE section_agent(text, i) = "*"
        rules == {i \in DOMAIN text : /\ lower(text[i].k) \in {"allow", "disallow"}
                                      /\ applies(i)
                                      /\ rule_matches(text[i].v, path_of(url))}
        longest == {i \in rules : \A j \in rules :
                                    rule_length(text[j].v) <= rule_length(text[i].v)}
    IN \/ rules = {}
       \/ \E i \in longest : lower(text[i].k) = "allow"

-----------------------------------------------------------------------------
(* RobotsCache::check_blocking, called by NCallers threads on one cache *)

Callers == 1..NCallers

\* robots.rs 71: the cache is valid for one hour
CacheTtlSecs == 3600

NoEntry == [robots_txt |-> NoText, crawl_delay |-> NoDelay, sitemaps |-> <<>>,
            fetched_at |-> NoTime]

\* the keys the cache may hold: hosts as written and lowercased
CacheKeys == {host_str(u) : u \in RobotsUrls \ {"not a url"}}
                \cup {extract_domain(u) : u \in RobotsUrls \ {"not a url"}}

\* RobotsCheckResult (robots.rs 23-28)
RobotsCheckResult(allowed, crawl_delay, sitemaps) ==
    [allowed |-> allowed, crawl_delay |-> crawl_delay, sitemaps |-> sitemaps]

\* robots.rs 47-51, 58-62: the answer for a URL without a host
AllowAll == RobotsCheckResult(TRUE, NoDelay, <<>>)

\* What the server may answer to GET /robots.txt: status 0 is a transport
\* error; a body that cannot be read has readable = FALSE.
RobotsResponses ==
    { [status |-> 0,   body |-> NoText, readable |-> FALSE],
      [status |-> 404, body |-> TextA,  readable |-> TRUE],
      [status |-> 200, body |-> TextA,  readable |-> TRUE],
      [status |-> 200, body |-> TextA,  readable |-> FALSE] }

NoResponse == [status |-> -1, body |-> NoText, readable |-> FALSE]

\* (a variant that reads the body of any answer)
robots_txt_of_any_status(r) == IF r.readable THEN r.body ELSE NoText
\* robots.rs 80-85: the body of a 2xx answer, "" for anything else
robots_txt_of(r) ==
    IF r.status >= 200 /\ r.status < 300 /\ r.readable THEN r.body ELSE NoText

\* (a variant that keeps an entry one second longer)
cache_valid_inclusive(entry, t) ==
    entry # NoEntry /\ t - entry.fetched_at <= CacheTtlSecs
\* robots.rs 69-71: an entry exists and is less than 3600 s old
cache_valid(entry, t) ==
    entry # NoEntry /\ t - entry.fetched_at < CacheTtlSecs

\* (a variant that computes the delay again for the asking agent)
check_cached_recomputing(cached, url, user_agent) ==
    RobotsCheckResult(robot_allowed(user_agent, cached.robots_txt, url),
                      extract_crawl_delay(cached.robots_txt, user_agent), cached.sitemaps)
\* robots.rs 117-128
check_cached(cached, url, user_agent) ==
    RobotsCheckResult(robot_allowed(user_agent, cached.robots_txt, url),
                      cached.crawl_delay, cached.sitemaps)

IdleCaller == [pc |-> "idle", url |-> "", ua |-> ""]
NoReturn == [via |-> "none", url |-> "", ua |-> "", resp |-> NoResponse, ret |-> AllowAll]

InitRobotsVars ==
    /\ cache = [d \in CacheKeys |-> NoEntry]
    /\ rclock = 0
    /\ nadv = 0
    /\ caller = [c \in Callers |-> IdleCaller]
    /\ last = NoReturn
    /\ robotsLog = <<>>

\* robots.rs 44-80: a thread calls check_blocking(url, user_agent). A URL
\* without a host is answered at once; a valid cache entry is answered from
\* the cache (under the read lock); otherwise the GET of robots.txt is sent.
CheckBlocking(c, url, user_agent) ==
    /\ caller[c].pc = "idle"
    /\ IF ~parse_ok(url) \/ host_str(url) = ""
       THEN /\ last' = [via |-> "nohost", url |-> url, ua |-> user_agent,
                        resp |-> NoResponse, ret |-> AllowAll]
            /\ UNCHANGED <<caller, robotsLog>>
       ELSE LET domain == to_lowercase(host_str(url))
            IN IF cache_valid(cache[domain], rclock)
               THEN /\ last' = [via |-> "cache", url |-> url, ua |-> user_agent,
                                resp |-> NoResponse,
                                ret |-> check_cached(cache[domain], url, user_agent)]
                    /\ UNCHANGED <<caller, robotsLog>>
               ELSE /\ caller' = [caller EXCEPT ![c] =
                                    [pc |-> "fetching", url |-> url, ua |-> user_agent]]
                    /\ robotsLog' = Append(robotsLog, [domain |-> domain, at |-> rclock])
                    /\ last' = NoReturn
    /\ UNCHANGED <<cache, rclock, nadv>>

\* robots.rs 80-115: the answer arrives; the text is parsed, the entry is
\* stored (under the write lock) with the present time, the result returned.
ReceiveAndStore(c, r) ==
    /\ caller[c].pc = "fetching"
    /\ LET url == caller[c].url
           user_agent == caller[c].ua
           domain == to_lowercase(host_str(url))
           robots_txt == robots_txt_of(r)
           crawl_delay == extract_crawl_delay(robots_txt, user_agent)
           sitemaps == extract_sitemaps(robots_txt)
           allowed == robot_allowed(user_agent, robots_txt, url)
       IN /\ cache' = [cache EXCEPT ![domain] =
                          [robots_txt |-> robots_txt, crawl_delay |-> crawl_delay,
                           sitemaps |-> sitemaps, fetched_at |-> rclock]]
          /\ last' = [via |-> "fetch", url |-> url, ua |-> user_agent, resp |-> r,
                      ret |-> RobotsCheckResult(allowed, crawl_delay, sitemaps)]
    /\ caller' = [caller EXCEPT ![c] = IdleCaller]
    /\ UNCHANGED <<rclock, nadv, robotsLog>>

\* Time passes: one second, or one second less than the lifetime of an entry.
Advance(d) ==
    /\ nadv < MaxAdvances
    /\ rclock' = rclock + d
    /\ nadv' = nadv + 1
    /\ last' = NoReturn
    /\ UNCHANGED <<cache, caller, robotsLog>>

NextRobots ==
    \/ \E c \in Callers, u \in RobotsUrls, a \in UserAgents :
         CheckBlocking(c, u, a) /\ UNCHANGED notRobotsVars
    \/ \E c \in Callers, r \in RobotsResponses :
         ReceiveAndStore(c, r) /\ UNCHANGED notRobotsVars
    \/ \E d \in {1, CacheTtlSecs - 1} : Advance(d) /\ UNCHANGED notRobotsVars

IdleRobots ==
    /\ cache = <<>>
    /\ rclock = 0
    /\ nadv = 0
    /\ caller = <<>>
    /\ last = NoReturn
    /\ robotsLog = <<>>

-----------------------------------------------------------------------------
(* Sitemaps: fetch_sitemap_simple_inner, fetch_sitemap_blocking and        *)
(* fetch_sitemap_internal_ureq                                             *)

SitemapUrlSet == {SitemapUrls[i] : i \in DOMAIN SitemapUrls}

\* sequences over S of length at most n
SeqsUpTo(S, n) == UNION {[1..k -> S] : k \in 0..n}

\* SitemapEntry (sitemap.rs 8-13): the url entry the urlset at u holds
PageOf(u) == [url |-> <<"page of", u>>]
\* SitemapIndexEntry (sitemap.rs 17-20)
IndexEntry(u) == [url |-> u]

Unknown == [kind |-> "unknown", urls |-> <<>>, sitemaps |-> <<>>]

\* What the server may hold at sitemap URL u: nothing reachable ("transport"),
\* a non-2xx answer ("http"), a body that cannot be read ("read"), or a
\* document that parse_sitemap reads as url entries and child references.
DocsAt(u) ==
    {[kind |-> k, urls |-> <<>>, sitemaps |-> <<>>] : k \in {"transport", "http", "read"}}
    \cup {[kind |-> "ok", urls |-> p, sitemaps |-> c] :
            p \in {<<>>, <<PageOf(u)>>},
            c \in {[i \in DOMAIN l |-> IndexEntry(l[i])] : l \in SeqsUpTo(SitemapUrlSet, MaxChildren)}}

\* SitemapResult (sitemap.rs 24-31)
SitemapResult(urls, sitemaps, errors) ==
    [urls |-> urls, sitemaps |-> sitemaps, errors |-> errors]

EmptyResult == SitemapResult(<<>>, <<>>, <<>>)

\* (a variant that puts the new entries in front)
ExtendInFront(a, b) ==
    SitemapResult(b.urls \o a.urls, b.sitemaps \o a.sitemaps, b.errors \o a.errors)
\* result.urls.extend(..); result.sitemaps.extend(..); result.errors.extend(..)
Extend(a, b) ==
    SitemapResult(a.urls \o b.urls, a.sitemaps \o b.sitemaps, a.errors \o b.errors)

\* sitemap.rs 166-192: the message pushed when the fetch of url fails
FetchError(kind, url) == [kind |-> kind, url |-> url]

\* What the server may answer to GET robots.txt in the sitemap operation: the
\* answers of the robots model, and a text without Sitemap lines.
TextNoSitemaps ==
    << [k |-> "User-agent", v |-> "*"],
       [k |-> "Disallow",   v |-> "/private"] >>

DiscoverResponses ==
    RobotsResponses \cup {[status |-> 200, body |-> TextNoSitemaps, readable |-> TRUE]}

\* (a variant that knows the directive in one spelling only)
sitemap_urls_exact_case(req, r) ==
    IF ~req.discover_from_robots \/ ~parse_ok(req.url) \/ host_str(req.url) = ""
    THEN <<req.url>>
    ELSE LET lines == SelectSeq(robots_txt_of(r), LAMBDA l : l.k = "Sitemap")
         IN IF lines = <<>> THEN <<req.url>>
            ELSE [i \in DOMAIN lines |-> lines[i].v]
\* ffi.rs 593-609 with robots.rs 183-191: on a new RobotsCache check_blocking
\* always misses, so get_sitemaps_blocking gives the Sitemap lines of the answer
sitemap_urls(req, r) ==
    IF ~req.discover_from_robots \/ ~parse_ok(req.url) \/ host_str(req.url) = ""
    THEN <<req.url>>
    ELSE LET sitemaps == extract_sitemaps(robots_txt_of(r))
         IN IF sitemaps # <<>> THEN sitemaps ELSE <<req.url>>

\* (a variant that returns nothing for a failed fetch)
FailedResultSilent(kind, url) == EmptyResult
\* sitemap.rs 166-192: a failed fetch returns its one message and nothing else
FailedResult(kind, url) == SitemapResult(<<>>, <<>>, <<FetchError(kind, url)>>)

\* SitemapRequest (ffi.rs 534-546) for fetch_sitemap_blocking alone
FetchRequests ==
    [url : {SitemapUrls[1]}, recursive : BOOLEAN, max_depth : 0..MaxDepth,
     discover_from_robots : {FALSE}]

\* SitemapRequest (ffi.rs 534-546) for a recursive fetch of the sitemaps that
\* robots.txt names
RootsRequests ==
    [url : {SitemapUrls[1]}, recursive : {TRUE}, max_depth : {1},
     discover_from_robots : {TRUE}]

\* SitemapRequest (ffi.rs 534-546) with and without discovery
DiscoverRequests ==
    [url : {SitemapUrls[1]}, recursive : BOOLEAN, max_depth : {0},
     discover_from_robots : BOOLEAN]

InitSitemapVars(requests) ==
    /\ smReq \in requests
    /\ web = [u \in SitemapUrlSet |-> Unknown]
    /\ smRobots = NoResponse
    /\ roots = <<>>
    /\ rootIdx = 0
    /\ stack = <<>>
    /\ combined = EmptyResult
    /\ fetchLog = <<>>
    /\ smPc = "discover"

IdleSitemap ==
    /\ smReq = [url |-> "", recursive |-> FALSE, max_depth |-> 0,
                discover_from_robots |-> FALSE]
    /\ web = <<>>
    /\ smRobots = NoResponse
    /\ roots = <<>>
    /\ rootIdx = 0
    /\ stack = <<>>
    /\ combined = EmptyResult
    /\ fetchLog = <<>>
    /\ smPc = "idle"

\* ffi.rs 593-615: sitemap_urls starts as the request URL; with
\* discover_from_robots robots.txt is fetched and its Sitemap entries, if any,
\* replace the list.
Discover(r) ==
    /\ smPc = "discover"
    /\ smRobots' = IF smReq.discover_from_robots /\ parse_ok(smReq.url)
                      /\ host_str(smReq.url) # ""
                   THEN r ELSE NoResponse
    /\ roots' = sitemap_urls(smReq, r)
    /\ rootIdx' = 1
    /\ smPc' = "roots"
    /\ UNCHANGED <<smReq, web, stack, combined, fetchLog>>

\* a call of fetch_sitemap_internal_ureq(url, .., current_depth)
Frame(url, depth) ==
    [url |-> url, depth |-> depth, phase |-> "enter", todo |-> <<>>, result |-> EmptyResult]

\* ffi.rs 617-624, sitemap.rs 132-147: the next root is fetched, at depth 0
StartRoot ==
    /\ smPc = "roots"
    /\ stack = <<>>
    /\ rootIdx <= Len(roots)
    /\ stack' = <<Frame(roots[rootIdx], 0)>>
    /\ UNCHANGED <<smReq, web, smRobots, roots, rootIdx, combined, fetchLog, smPc>>

Top == stack[Len(stack)]
SetTop(f) == [stack EXCEPT ![Len(stack)] = f]

\* (a variant that allows one more level)
too_deep_one_more(current_depth, max_depth) == current_depth > max_depth + 1
\* sitemap.rs 162
too_deep(current_depth, max_depth) == current_depth > max_depth

\* sitemap.rs 162-164: past max_depth the call returns an empty result
\* without any request
ReturnTooDeep ==
    /\ stack # <<>>
    /\ Top.phase = "enter"
    /\ too_deep(Top.depth, smReq.max_depth)
    /\ stack' = SetTop([Top EXCEPT !.phase = "return"])
    /\ UNCHANGED <<smReq, web, smRobots, roots, rootIdx, combined, fetchLog, smPc>>

\* sitemap.rs 166-215: the sitemap is fetched. A failed fetch returns one
\* error. A document gives its url entries; if recursive and the document
\* has child references the loop over them starts, otherwise the child
\* references go to result.sitemaps.
VisitWith(doc) ==
    /\ web[Top.url] \in {Unknown, doc}
    /\ web' = [web EXCEPT ![Top.url] = doc]
    /\ fetchLog' = Append(fetchLog, [url |-> Top.url, depth |-> Top.depth])
    /\ stack' = SetTop(
         IF doc.kind # "ok"
         THEN [Top EXCEPT !.phase = "return",
                          !.result = FailedResult(doc.kind, Top.url)]
         ELSE IF smReq.recursive /\ doc.sitemaps # <<>>
              THEN [Top EXCEPT !.phase = "children",
                               !.todo = doc.sitemaps,
                               !.result = SitemapResult(doc.urls, <<>>, <<>>)]
              ELSE [Top EXCEPT !.phase = "return",
                               !.result = SitemapResult(doc.urls, doc.sitemaps, <<>>)])
    /\ UNCHANGED <<smReq, smRobots, roots, rootIdx, combined, smPc>>

Visit ==
    /\ stack # <<>>
    /\ Top.phase = "enter"
    /\ ~too_deep(Top.depth, smReq.max_depth)
    /\ \E doc \in DocsAt(Top.url) : VisitWith(doc)

\* sitemap.rs 201-208: the call for the next child reference, one level deeper
Descend ==
    /\ stack # <<>>
    /\ Top.phase = "children"
    /\ Top.todo # <<>>
    /\ stack' = Append(SetTop([Top EXCEPT !.todo = Tail(@)]),
                       Frame(Head(Top.todo).url, Top.depth + 1))
    /\ UNCHANGED <<smReq, web, smRobots, roots, rootIdx, combined, fetchLog, smPc>>

\* the call on top of the stack has its result
Finished(f) == f.phase = "return" \/ (f.phase = "children" /\ f.todo = <<>>)

\* sitemap.rs 209-211, 217: the call returns; the caller extends its result
Return ==
    /\ Len(stack) > 1
    /\ Finished(Top)
    /\ LET parent == stack[Len(stack) - 1]
       IN stack' = SubSeq(stack, 1, Len(stack) - 2) \o
                      <<[parent EXCEPT !.result = Extend(parent.result, Top.result)]>>
    /\ UNCHANGED <<smReq, web, smRobots, roots, rootIdx, combined, fetchLog, smPc>>

\* ffi.rs 618-628: fetch_sitemap_blocking returns; combined is extended and
\* the loop goes to the next root
ReturnRoot ==
    /\ Len(stack) = 1
    /\ Finished(Top)
    /\ combined' = Extend(combined, Top.result)
    /\ stack' = <<>>
    /\ rootIdx' = rootIdx + 1
    /\ UNCHANGED <<smReq, web, smRobots, roots, fetchLog, smPc>>

\* ffi.rs 630-635: every root is done; the response is serialised
Finish ==
    /\ smPc = "roots"
    /\ stack = <<>>
    /\ rootIdx > Len(roots)
    /\ smPc' = "done"
    /\ UNCHANGED <<smReq, web, smRobots, roots, rootIdx, stack, combined, fetchLog>>

NextSitemap ==
    \/ \E r \in DiscoverResponses : Discover(r) /\ UNCHANGED notSitemapVars
    \/ StartRoot /\ UNCHANGED notSitemapVars
    \/ ReturnTooDeep /\ UNCHANGED notSitemapVars
    \/ Visit /\ UNCHANGED notSitemapVars
    \/ Descend /\ UNCHANGED notSitemapVars
    \/ Return /\ UNCHANGED notSitemapVars
    \/ ReturnRoot /\ UNCHANGED notSitemapVars
    \/ Finish /\ UNCHANGED notSitemapVars

-----------------------------------------------------------------------------
(* RobotsCache::extract_crawl_delay on every short robots.txt *)

\* the lines a robots.txt of this part is made of
DelayLines ==
    { [k |-> "User-agent",  v |-> "*"],
      [k |-> "User-agent",  v |-> "BadBot"],
      [k |-> "Crawl-delay", v |-> "5"],
      [k |-> "crawl-delay", v |-> "1"],
      [k |-> "Crawl-delay", v |-> "soon"],
      [k |-> "Disallow",    v |-> "/private"] }

DelayTexts == UNION {[1..n -> DelayLines] : n \in 0..MaxLines}

NotCalled == -2

InitDelayVars ==
    /\ rtText \in DelayTexts
    /\ rtAgent \in UserAgents
    /\ rtDelay = NotCalled

IdleDelay ==
    /\ rtText = NoText
    /\ rtAgent = ""
    /\ rtDelay = NotCalled

\* robots.rs 87: let crawl_delay = Self::extract_crawl_delay(&robots_txt, user_agent)
ExtractCrawlDelay ==
    /\ rtDelay = NotCalled
    /\ rtDelay' = extract_crawl_delay(rtText, rtAgent)
    /\ UNCHANGED <<rtText, rtAgent>>

NextDelay ==
    \/ ExtractCrawlDelay /\ UNCHANGED notDelayVars

-----------------------------------------------------------------------------
(* The extern "C" boundary: what each operation hands back to its caller    *)

\* ExtractionResultFFI (ffi.rs 10-15): which pointers are set, and
\* what the string says
Envelope(json_set, error_set, body) ==
    [json_ptr |-> json_set, error_ptr |-> error_set, body |-> body]

Pending == Envelope(FALSE, FALSE, "pending")
\* the panic leaves the extern "C" function: the caller gets nothing back
Unwound == Envelope(FALSE, FALSE, "unwound")

JsonEnvelope(body) == Envelope(TRUE, FALSE, body)
\* (a variant that sets both pointers)
ErrorEnvelopeBoth(body) == Envelope(TRUE, TRUE, body)
\* ffi.rs 43-46, 54-57, 64-67, ...: json_ptr null, error_ptr the message
ErrorEnvelope(body) == Envelope(FALSE, TRUE, body)

\* the outcome of a call: what is returned and what was done
Outcome(ret, effects) == [ret |-> ret, effects |-> effects]

\* std::panic::catch_unwind (ffi.rs 566-573, 688-697)
catch_unwind(inner, on_panic) ==
    IF inner.ret = Unwound THEN Outcome(on_panic, inner.effects) ELSE inner

\* ffi.rs 33-85: no catch_unwind around extract_all
extract_from_html(in, env) ==
    IF ~in.html_utf8 THEN Outcome(ErrorEnvelope("Invalid UTF-8 in HTML"), {})
    ELSE IF ~in.request_utf8 THEN Outcome(ErrorEnvelope("Invalid UTF-8 in request"), {})
    ELSE IF ~in.request_json_ok THEN Outcome(ErrorEnvelope("Invalid request JSON"), {})
    ELSE IF env.panics THEN Outcome(Unwound, {"extraction"})
    ELSE IF ~env.serialize_ok
         THEN Outcome(ErrorEnvelope("Failed to serialize result"), {"extraction"})
    ELSE Outcome(JsonEnvelope("result"), {"extraction"})

\* ffi.rs 120-148 (extract_microdata_ffi and extract_opengraph_ffi alike)
extract_jsonld_ffi(in, env) ==
    IF ~in.html_utf8 THEN Outcome(ErrorEnvelope("Invalid UTF-8"), {})
    ELSE IF env.panics THEN Outcome(Unwound, {"extraction"})
    ELSE IF ~env.serialize_ok
         THEN Outcome(ErrorEnvelope("Serialization error"), {"extraction"})
    ELSE Outcome(JsonEnvelope("result"), {"extraction"})

\* ffi.rs 445-526: no catch_unwind around block_on
crawl_batch_ffi(in, env) ==
    IF ~in.request_utf8 THEN Outcome(ErrorEnvelope("Invalid UTF-8"), {})
    ELSE IF ~in.request_json_ok THEN Outcome(ErrorEnvelope("Invalid request"), {})
    ELSE IF ~env.client_ok THEN Outcome(ErrorEnvelope("Client build error"), {})
    ELSE IF ~env.runtime_ok THEN Outcome(ErrorEnvelope("Tokio runtime error"), {})
    ELSE IF env.panics THEN Outcome(Unwound, {"network"})
    ELSE IF ~env.serialize_ok
         THEN Outcome(ErrorEnvelope("Serialization error"), {"network"})
    ELSE Outcome(JsonEnvelope("result"), {"network"})

\* ffi.rs 576-636: the envelope is one JSON string, errors inside it
fetch_sitemap_simple_inner(in, env) ==
    IF ~in.request_utf8 THEN Outcome(JsonEnvelope("errors: Invalid UTF-8"), {})
    ELSE IF ~in.request_json_ok THEN Outcome(JsonEnvelope("errors: Invalid request"), {})
    ELSE IF env.panics THEN Outcome(Unwound, {"network"})
    ELSE IF ~env.serialize_ok
         THEN Outcome(JsonEnvelope("errors: Serialization error"), {"network"})
    ELSE Outcome(JsonEnvelope("result"), {"network"})

\* ffi.rs 564-574
fetch_sitemap_simple(in, env) ==
    catch_unwind(fetch_sitemap_simple_inner(in, env),
                 JsonEnvelope("errors: Panic in sitemap fetch"))

\* ffi.rs 699-743
check_robots_ffi_inner(in, env) ==
    IF ~in.request_utf8 THEN Outcome(ErrorEnvelope("Invalid UTF-8"), {})
    ELSE IF ~in.request_json_ok THEN Outcome(ErrorEnvelope("Invalid request"), {})
    ELSE IF env.panics THEN Outcome(Unwound, {"network"})
    ELSE IF ~env.serialize_ok
         THEN Outcome(ErrorEnvelope("Serialization error"), {"network"})
    ELSE Outcome(JsonEnvelope("result"), {"network"})

\* ffi.rs 686-697
check_robots_ffi(in, env) ==
    catch_unwind(check_robots_ffi_inner(in, env), ErrorEnvelope("Panic in robots check"))

InitBoundaryVars ==
    /\ bIn \in [html_utf8 : BOOLEAN, request_utf8 : BOOLEAN, request_json_ok : BOOLEAN]
    /\ bEnv \in [client_ok : BOOLEAN, runtime_ok : BOOLEAN, panics : BOOLEAN,
                 serialize_ok : BOOLEAN]
    /\ bOp = ""
    /\ bRet = Pending
    /\ bEffects = {}

IdleBoundary ==
    /\ bIn = [html_utf8 |-> TRUE, request_utf8 |-> TRUE, request_json_ok |-> TRUE]
    /\ bEnv = [client_ok |-> TRUE, runtime_ok |-> TRUE, panics |-> FALSE,
               serialize_ok |-> TRUE]
    /\ bOp = ""
    /\ bRet = Pending
    /\ bEffects = {}

\* the host calls the operation op, whose outcome is out
Call(op, out) ==
    /\ bOp = ""
    /\ bOp' = op
    /\ bRet' = out.ret
    /\ bEffects' = out.effects
    /\ UNCHANGED <<bIn, bEnv>>

NextBoundary ==
    \/ Call("extract_from_html", extract_from_html(bIn, bEnv)) /\ UNCHANGED notBoundaryVars
    \/ Call("extract_jsonld_ffi", extract_jsonld_ffi(bIn, bEnv)) /\ UNCHANGED notBoundaryVars
    \/ Call("crawl_batch_ffi", crawl_batch_ffi(bIn, bEnv)) /\ UNCHANGED notBoundaryVars
    \/ Call("fetch_sitemap_simple", fetch_sitemap_simple(bIn, bEnv)) /\ UNCHANGED notBoundaryVars
    \/ Call("check_robots_ffi", check_robots_ffi(bIn, bEnv)) /\ UNCHANGED notBoundaryVars

-----------------------------------------------------------------------------
(* extract_single: a spec and its alternatives (COALESCE)                 *)

\* Option<String>::None
None == <<"None">>
Some(x) == <<"Some", x>>

\* ExtractSpec (extractors.rs 19-51), as far as extract_single looks at it:
\* whether its source yields a value for the document, and its alternatives.
\* Specs without alternatives, specs whose alternatives have none, and specs
\* whose alternatives have alternatives.
ExtractSpecs0 == [yields : BOOLEAN, alternatives : {<<>>}]
ExtractSpecs1 == [yields : BOOLEAN, alternatives : SeqsUpTo(ExtractSpecs0, MaxAlternatives)]
ExtractSpecs == [yields : BOOLEAN, alternatives : SeqsUpTo(ExtractSpecs1, MaxAlternatives)]

\* extractors.rs 226-234: the value the source of the spec at position at
\* (the indexes that lead to it from the outermost spec) gives: the value of
\* each spec is its own, named after its position
extract_from_source(spec, at) == IF spec.yields THEN Some(at) ELSE None

\* what a call of extract_single gives: the result and the sources it evaluated
Evaluation(result, evaluated) == [result |-> result, evaluated |-> evaluated]

\* (a variant that tries the alternatives whatever the primary gave)
try_alternatives_always(result, alternatives) == alternatives # <<>>
\* extractors.rs 237
try_alternatives(result, alternatives) == result = None /\ alternatives # <<>>

RECURSIVE extract_single(_, _)
RECURSIVE alternatives_loop(_, _, _, _, _)

\* extractors.rs 238-243: the for loop over spec.alternatives from index i on;
\* result is what the primary gave
alternatives_loop(spec, at, i, result, evaluated) ==
    IF i > Len(spec.alternatives) THEN Evaluation(result, evaluated)
    ELSE LET alt_result == extract_single(spec.alternatives[i], Append(at, i))
         IN IF alt_result.result # None
            THEN Evaluation(alt_result.result, evaluated \o alt_result.evaluated)
            ELSE alternatives_loop(spec, at, i + 1, result,
                                   evaluated \o alt_result.evaluated)

\* extractors.rs 216-247
extract_single(spec, at) ==
    LET result == extract_from_source(spec, at)
    IN IF try_alternatives(result, spec.alternatives)
       THEN alternatives_loop(spec, at, 1, result, <<at>>)
       ELSE Evaluation(result, <<at>>)

InitCoalesceVars ==
    /\ xSpec \in ExtractSpecs
    /\ xCalled = FALSE
    /\ xResult = None
    /\ xEvaluated = <<>>

IdleCoalesce ==
    /\ xSpec = [yields |-> FALSE, alternatives |-> <<>>]
    /\ xCalled = FALSE
    /\ xResult = None
    /\ xEvaluated = <<>>

\* extractors.rs 82-90: extract_all calls extract_single for the spec
ExtractSingle ==
    /\ ~xCalled
    /\ xCalled' = TRUE
    /\ LET e == extract_single(xSpec, <<>>)
       IN xResult' = e.result /\ xEvaluated' = e.evaluated
    /\ UNCHANGED xSpec

NextCoalesce ==
    \/ ExtractSingle /\ UNCHANGED notCoalesceVars

-----------------------------------------------------------------------------
(* The indexes of a document: JSON-LD, microdata, OpenGraph                *)

\* serde_json::Value as the JSON-LD walk sees it: a string, an object with
\* or without @type and @graph, an array; "invalid" is a block that
\* serde_json::from_str refuses.
JsonValue(kind, types, has_graph, items) ==
    [kind |-> kind, types |-> types, has_graph |-> has_graph, items |-> items]

JsonString == JsonValue("string", <<>>, FALSE, <<>>)
InvalidJson == JsonValue("invalid", <<>>, FALSE, <<>>)

\* @type absent, a string, an array of strings
TypeValues == { <<>>, <<"https://schema.org/Product">>, <<"Product", "Offer">> }

LeafValues ==
    {JsonString} \cup {JsonValue("object", t, FALSE, <<>>) : t \in TypeValues}

JsonValues ==
    LeafValues
    \cup {JsonValue("array", <<>>, FALSE, l) : l \in SeqsUpTo(LeafValues, MaxItems)}
    \cup {JsonValue("object", t, TRUE, l) :
            t \in {<<>>, <<"Product">>}, l \in SeqsUpTo(LeafValues, MaxItems)}

\* a document with two <script type="application/ld+json"> blocks
JsonldDocuments ==
    {[scripts |-> <<a, b>>, scopes |-> <<>>, metas |-> <<>>] :
        a \in JsonValues \cup {InvalidJson}, b \in JsonValues \cup {InvalidJson}}

\* the [itemscope] elements of a document, in document order, each with its
\* itemtype attribute ("none": the attribute is missing)
ItemTypes == {"https://schema.org/Product", "Offer", "none"}

MicrodataDocuments ==
    {[scripts |-> <<>>, scopes |-> l, metas |-> <<>>] : l \in SeqsUpTo(ItemTypes, MaxTags)}

\* <meta property=.. content=..> tags
MetaTags ==
    { [property |-> "og:image", content |-> "A"],
      [property |-> "og:image", content |-> "B"],
      [property |-> "og:title", content |-> "T"],
      [property |-> "og:image:width", content |-> "1200"] }

MetaDocuments ==
    {[scripts |-> <<>>, scopes |-> <<>>, metas |-> l] : l \in SeqsUpTo(MetaTags, MaxTags)}

\* what stands in an index variable before the index is built
NotBuilt == [k \in {"not built"} |-> <<>>]
\* HashMap::new()
EmptyMap == [k \in {} |-> <<>>]

\* (a variant that puts the item in front)
push_front(result, key, item) ==
    IF key \in DOMAIN result
    THEN [result EXCEPT ![key] = <<item>> \o @]
    ELSE result @@ (key :> <<item>>)
\* extractors.rs 300, 374: result.entry(key).or_default().push(item)
push(result, key, item) ==
    IF key \in DOMAIN result
    THEN [result EXCEPT ![key] = Append(@, item)]
    ELSE result @@ (key :> <<item>>)

\* extractors.rs 294-298: strip_prefix("https://schema.org/") or ("http://schema.org/")
clean_type(t) ==
    CASE t = "https://schema.org/Product" -> "Product"
      [] t = "http://schema.org/Product" -> "Product"
      [] OTHER -> t

\* extractors.rs 292-301: the loop over the types of the object at position at
RECURSIVE push_types(_, _, _, _)
push_types(types, i, at, result) ==
    IF i > Len(types) THEN result
    ELSE push_types(types, i + 1, at, push(result, clean_type(types[i]), at))

RECURSIVE collect_typed_objects(_, _, _)
RECURSIVE collect_items(_, _, _, _)

\* extractors.rs 275-279, 304-308: the loop over the elements of an array;
\* element i of the value at position at has position at \o <<i>>
collect_items(items, i, at, result) ==
    IF i > Len(items) THEN result
    ELSE collect_items(items, i + 1, at,
                       collect_typed_objects(items[i], Append(at, i), result))

\* extractors.rs 271-311: the item pushed is the object itself, named here
\* by its position in the document
collect_typed_objects(value, at, result) ==
    CASE value.kind = "object" ->
            push_types(value.types, 1, at,
                       IF value.has_graph
                       THEN collect_items(value.items, 1, at, result)
                       ELSE result)
      [] value.kind = "array" -> collect_items(value.items, 1, at, result)
      [] OTHER -> result

\* extractors.rs 255-260: the loop over the script elements
RECURSIVE collect_scripts(_, _, _)
collect_scripts(scripts, i, collected) ==
    IF i > Len(scripts) THEN collected
    ELSE collect_scripts(scripts, i + 1,
            IF scripts[i].kind # "invalid"
            THEN collect_typed_objects(scripts[i], <<i>>, collected)
            ELSE collected)

\* extractors.rs 251-267
extract_jsonld_objects(document) == collect_scripts(document.scripts, 1, EmptyMap)

\* extractors.rs 348-352: itemtype.rsplit('/').next()
last_segment(itemtype) ==
    CASE itemtype = "https://schema.org/Product" -> "Product"
      [] OTHER -> itemtype

\* extractors.rs 346-376: the loop over the [itemscope][itemtype] elements
RECURSIVE collect_scopes(_, _, _)
collect_scopes(scopes, i, collected) ==
    IF i > Len(scopes) THEN collected
    ELSE collect_scopes(scopes, i + 1,
            IF scopes[i] # "none"
            THEN push(collected, last_segment(scopes[i]), <<i>>)
            ELSE collected)

\* extractors.rs 342-383
extract_microdata(document) == collect_scopes(document.scopes, 1, EmptyMap)

\* HashMap::insert
insert(result, key, value) ==
    IF key \in DOMAIN result
    THEN [result EXCEPT ![key] = value]
    ELSE result @@ (key :> value)

\* str::strip_prefix("og:") on the properties of the model
strip_og(property) ==
    CASE property = "og:image" -> "image"
      [] property = "og:title" -> "title"
      [] property = "og:image:width" -> "image:width"
      [] OTHER -> property

\* the values of an og map, as the JSON they are serialised to: the Strings of
\* extractors.rs 411, the serde_json Values of opengraph_extractor.rs
OgString(s) == [kind |-> "string", s |-> s, items |-> <<>>, fields |-> EmptyMap]
OgArray(items) == [kind |-> "array", s |-> "", items |-> items, fields |-> EmptyMap]
OgObject(fields) == [kind |-> "object", s |-> "", items |-> <<>>, fields |-> fields]

\* extractors.rs 415-423: the loop over the meta[property^="og:"] elements
RECURSIVE og_loop(_, _, _)
og_loop(metas, i, result) ==
    IF i > Len(metas) THEN result
    ELSE og_loop(metas, i + 1,
                 insert(result, strip_og(metas[i].property), OgString(metas[i].content)))

\* extractors.rs 411-426
extract_opengraph(document) == og_loop(document.metas, 1, EmptyMap)

\* opengraph_extractor.rs 77-115
insert_value(map, key, value) ==
    IF key = "image:width"
    THEN LET main_key == "image"
             sub_key == "width"
             nested == IF main_key \in DOMAIN map THEN map[main_key] ELSE OgObject(EmptyMap)
         IN CASE nested.kind = "object" ->
                    insert(map, main_key, OgObject(insert(nested.fields, sub_key, value)))
              [] nested.kind = "string" ->
                    insert(map, main_key,
                           OgObject(("_value" :> nested.s) @@ (sub_key :> value)))
              [] OTHER -> map
    ELSE IF key \in DOMAIN map
         THEN IF map[key].kind = "array"
              THEN insert(map, key, OgArray(Append(map[key].items, OgString(value))))
              ELSE insert(map, key, OgArray(<<map[key], OgString(value)>>))
         ELSE insert(map, key, OgString(value))

\* opengraph_extractor.rs 22-38: the loop over the meta elements, og: part
RECURSIVE og_grouped_loop(_, _, _)
og_grouped_loop(metas, i, map) ==
    IF i > Len(metas) THEN map
    ELSE og_grouped_loop(metas, i + 1,
            IF metas[i].content = "" THEN map
            ELSE insert_value(map, strip_og(metas[i].property), metas[i].content))

InitIndexVars ==
    /\ html \in JsonldDocuments \cup MicrodataDocuments \cup MetaDocuments
    /\ jsonld = NotBuilt
    /\ microdata = NotBuilt
    /\ og = NotBuilt
    /\ ogGrouped = NotBuilt

IdleIndex ==
    /\ html = [scripts |-> <<>>, scopes |-> <<>>, metas |-> <<>>]
    /\ jsonld = NotBuilt
    /\ microdata = NotBuilt
    /\ og = NotBuilt
    /\ ogGrouped = NotBuilt

\* extractors.rs 75-78: extract_all builds the indexes of the document
BuildIndexes ==
    /\ jsonld = NotBuilt
    /\ jsonld' = extract_jsonld_objects(html)
    /\ microdata' = extract_microdata(html)
    /\ og' = extract_opengraph(html)
    /\ UNCHANGED <<html, ogGrouped>>

\* opengraph_extractor.rs 9-75
BuildGrouped ==
    /\ ogGrouped = NotBuilt
    /\ ogGrouped' = og_grouped_loop(html.metas, 1, EmptyMap)
    /\ UNCHANGED <<html, jsonld, microdata, og>>

NextIndex ==
    \/ BuildIndexes /\ UNCHANGED notIndexVars
    \/ BuildGrouped /\ UNCHANGED notIndexVars

-----------------------------------------------------------------------------
(* value_to_string: the text a found value is returned as                  *)

\* serde_json values; a string is the sequence of its characters
TextValue(kind, chars, items) == [kind |-> kind, chars |-> chars, items |-> items]
TextString(chars) == TextValue("string", chars, <<>>)
Strings == { <<>>, <<"T">>, <<"5">>, <<"a", "\"", "b">> }
TextLeaves ==
    {TextString(c) : c \in Strings}
    \cup {TextValue("null", <<>>, <<>>), TextValue("number", <<"5">>, <<>>),
          TextValue("bool", <<"t", "r", "u", "e">>, <<>>)}
TextValues ==
    TextLeaves
    \cup {TextValue("array", <<>>, <<>>),
          TextValue("array", <<>>, <<TextString(<<"T">>), TextValue("null", <<>>, <<>>)>>)}

\* serde_json's escaping of the characters of a string
RECURSIVE escape(_)
escape(chars) ==
    IF chars = <<>> THEN <<>>
    ELSE (IF Head(chars) \in {"\"", "\\"} THEN <<"\\", Head(chars)>> ELSE <<Head(chars)>>)
         \o escape(Tail(chars))

RECURSIVE to_string(_)
RECURSIVE join_items(_, _)
\* the elements of an array, comma separated
join_items(items, i) ==
    IF i > Len(items) THEN <<>>
    ELSE (IF i > 1 THEN <<",">> ELSE <<>>) \o to_string(items[i]) \o join_items(items, i + 1)

\* Value::to_string: compact JSON
to_string(value) ==
    CASE value.kind = "string" -> <<"\"">> \o escape(value.chars) \o <<"\"">>
      [] value.kind = "null" -> <<"n", "u", "l", "l">>
      [] value.kind = "array" -> <<"[">> \o join_items(value.items, 1) \o <<"]">>
      [] OTHER -> value.chars

\* extractors.rs 1038-1048
value_to_string(value, return_text) ==
    IF return_text
    THEN CASE value.kind = "string" -> Some(value.chars)
           [] value.kind = "null" -> None
           [] OTHER -> Some(to_string(value))
    ELSE Some(to_string(value))

\* extractors.rs 429-434, 454-459: data.get(&path[0]).cloned(); 505-585: the
\* text, html or attribute of the element, a String
cloned(value) == Some(value.chars)

\* extractors.rs 226-234: the match on spec.source, for a path that leads to
\* the value found
extract_found(spec, found) ==
    CASE spec.source \in {"jsonld", "microdata", "js"} -> value_to_string(found, spec.return_text)
      [] spec.source \in {"og", "meta", "css"} -> cloned(found)
      [] OTHER -> None

Sources == {"jsonld", "microdata", "og", "meta", "css", "js"}
NotExtracted == <<"not extracted">>

\* the og and meta maps hold Strings and css gives a String; the other
\* sources hold serde_json values
FoundIn(source) ==
    IF source \in {"og", "meta", "css"} THEN {TextString(c) : c \in Strings} ELSE TextValues

InitTextVars ==
    /\ tSpec \in [source : Sources, return_text : BOOLEAN]
    /\ tFound \in FoundIn(tSpec.source)
    /\ tOut = NotExtracted

IdleText ==
    /\ tSpec = [source |-> "jsonld", return_text |-> FALSE]
    /\ tFound = TextString(<<>>)
    /\ tOut = NotExtracted

ExtractText ==
    /\ tOut = NotExtracted
    /\ tOut' = extract_found(tSpec, tFound)
    /\ UNCHANGED <<tSpec, tFound>>
    /\ UNCHANGED notTextVars

NextText == ExtractText

-----------------------------------------------------------------------------
(* parse_sitemap: the loop over the events of the XML reader                *)

\* a child element of an entry: <tag>text</tag>, <tag><![CDATA[text]]></tag>
\* or <tag></tag>
Child(tag, kind, text) == [tag |-> tag, kind |-> kind, text |-> text]
ChildLists ==
    { <<>>,
      <<Child("loc", "text", "A")>>,
      <<Child("loc", "text", "B")>>,
      <<Child("loc", "none", "")>>,
      <<Child("loc", "cdata", "A")>>,
      <<Child("lastmod", "text", "D"), Child("x", "text", "t")>>,
      <<Child("lastmod", "text", "D"), Child("loc", "text", "A"), Child("x", "text", "t")>> }

\* an element under the root: <url>, <sitemap> or an unknown <x>, with its
\* children, or the self-closing <url/>
Element(tag, self_closing, children) ==
    [tag |-> tag, self_closing |-> self_closing, children |-> children]
Elements ==
    {Element(tag, FALSE, c) : tag \in {"url", "sitemap", "x"}, c \in ChildLists}
    \cup {Element("url", TRUE, <<>>)}

\* quick_xml::events::Event
Event(type, name, text) == [type |-> type, name |-> name, text |-> text]
Start(name) == Event("Start", name, "")
End(name) == Event("End", name, "")
Err == Event("Err", "", "")

\* the events the reader gives for a child; trim_text(true): no Text event
\* for an empty text
ChildEvents(c) ==
    <<Start(c.tag)>>
    \o (CASE c.kind = "text" -> <<Event("Text", "", c.text)>>
          [] c.kind = "cdata" -> <<Event("CData", "", c.text)>>
          [] OTHER -> <<>>)
    \o <<End(c.tag)>>

RECURSIVE ChildrenEvents(_)
ChildrenEvents(children) ==
    IF children = <<>> THEN <<>>
    ELSE ChildEvents(Head(children)) \o ChildrenEvents(Tail(children))

ElementEvents(e) ==
    IF e.self_closing THEN <<Event("Empty", e.tag, "")>>
    ELSE <<Start(e.tag)>> \o ChildrenEvents(e.children) \o <<End(e.tag)>>

RECURSIVE ElementsEvents(_)
ElementsEvents(elements) ==
    IF elements = <<>> THEN <<>>
    ELSE ElementEvents(Head(elements)) \o ElementsEvents(Tail(elements))

\* the events of <urlset> elements </urlset>
DocumentEvents(elements) ==
    <<Start("urlset")>> \o ElementsEvents(elements) \o <<End("urlset")>>

\* what read_event_into gives, call after call: the events of the document,
\* an Err in the place of markup number broken_at when that is malformed
\* (broken_at = 0: well-formed), Eof at the end
ReaderEvents(document) ==
    LET events == DocumentEvents(document.elements)
    IN [i \in 1..(Len(events) + 1) |->
            IF i = Len(events) + 1 THEN Event("Eof", "", "")
            ELSE IF i = document.broken_at THEN Err
            ELSE events[i]]

\* sitemap.rs 35-53: the state of the loop
ParserState(result, current_tag, in_url, in_sitemap, url, lastmod, changefreq, priority) ==
    [result |-> result, current_tag |-> current_tag, in_url |-> in_url,
     in_sitemap |-> in_sitemap, url |-> url, lastmod |-> lastmod,
     changefreq |-> changefreq, priority |-> priority]

InitialState == ParserState(EmptyResult, "", FALSE, FALSE, "", None, None, None)

\* sitemap.rs 113: text.parse().ok()
priority_of(text) == IF parse_f64(text) = NoDelay THEN None ELSE Some(parse_f64(text))

\* sitemap.rs 57-76
on_start(st, e) ==
    CASE e.name = "url" ->
            [st EXCEPT !.current_tag = e.name, !.in_url = TRUE, !.url = "", !.lastmod = None,
                       !.changefreq = None, !.priority = None]
      [] e.name = "sitemap" ->
            [st EXCEPT !.current_tag = e.name, !.in_sitemap = TRUE, !.url = "", !.lastmod = None]
      [] OTHER -> [st EXCEPT !.current_tag = e.name]

\* sitemap.rs 77-104
on_end(st, e) ==
    CASE e.name = "url" /\ st.in_url ->
            [st EXCEPT
                !.result.urls =
                    IF st.url # ""
                    THEN Append(@, [url |-> st.url, lastmod |-> st.lastmod,
                                    changefreq |-> st.changefreq, priority |-> st.priority])
                    ELSE @,
                !.in_url = FALSE,
                !.current_tag = ""]
      [] e.name = "sitemap" /\ st.in_sitemap ->
            [st EXCEPT
                !.result.sitemaps =
                    IF st.url # "" THEN Append(@, [url |-> st.url, lastmod |-> st.lastmod])
                    ELSE @,
                !.in_sitemap = FALSE,
                !.current_tag = ""]
      [] OTHER -> [st EXCEPT !.current_tag = ""]

\* sitemap.rs 105-117
on_text(st, e) ==
    IF st.in_url \/ st.in_sitemap
    THEN CASE st.current_tag = "loc" -> [st EXCEPT !.url = e.text]
           [] st.current_tag = "lastmod" -> [st EXCEPT !.lastmod = Some(e.text)]
           [] st.current_tag = "changefreq" /\ st.in_url -> [st EXCEPT !.changefreq = Some(e.text)]
           [] st.current_tag = "priority" /\ st.in_url -> [st EXCEPT !.priority = priority_of(e.text)]
           [] OTHER -> st
    ELSE st

\* sitemap.rs 119-122
on_err(st) == [st EXCEPT !.result.errors = Append(@, "XML parse error")]

RECURSIVE parse_loop_past_errors(_, _, _)
\* (a variant that reads on after an error)
parse_loop_past_errors(events, i, st) ==
    IF i > Len(events) THEN st.result
    ELSE CASE events[i].type = "Start" -> parse_loop_past_errors(events, i + 1, on_start(st, events[i]))
           [] events[i].type = "End" -> parse_loop_past_errors(events, i + 1, on_end(st, events[i]))
           [] events[i].type = "Text" -> parse_loop_past_errors(events, i + 1, on_text(st, events[i]))
           [] events[i].type = "Eof" -> st.result
           [] events[i].type = "Err" -> parse_loop_past_errors(events, i + 1, on_err(st))
           [] OTHER -> parse_loop_past_errors(events, i + 1, st)

RECURSIVE parse_loop(_, _, _)
\* sitemap.rs 55-126: the loop, one read_event_into per round
parse_loop(events, i, st) ==
    IF i > Len(events) THEN st.result
    ELSE CASE events[i].type = "Start" -> parse_loop(events, i + 1, on_start(st, events[i]))
           [] events[i].type = "End" -> parse_loop(events, i + 1, on_end(st, events[i]))
           [] events[i].type = "Text" -> parse_loop(events, i + 1, on_text(st, events[i]))
           [] events[i].type = "Eof" -> st.result
           [] events[i].type = "Err" -> on_err(st).result
           [] OTHER -> parse_loop(events, i + 1, st)

\* sitemap.rs 34-129
parse_sitemap(document) == parse_loop(ReaderEvents(document), 1, InitialState)

NotParsed == [urls |-> <<>>, sitemaps |-> <<>>, errors |-> <<"not parsed">>]

XmlDocuments ==
    UNION {[elements : {es}, broken_at : 0..Len(DocumentEvents(es))] :
              es \in SeqsUpTo(Elements, MaxElements)}

InitParseVars ==
    /\ xml \in XmlDocuments
    /\ parsed = NotParsed

IdleParse ==
    /\ xml = [elements |-> <<>>, broken_at |-> 0]
    /\ parsed = NotParsed

ParseSitemap ==
    /\ parsed = NotParsed
    /\ parsed' = parse_sitemap(xml)
    /\ UNCHANGED xml
    /\ UNCHANGED notParseVars

NextParse == ParseSitemap

-----------------------------------------------------------------------------
(* parse_sitemap on documents whose entries hold entries                   *)

\* <tag>text</tag>
Field(tag, text) == [tag |-> tag, text |-> text, items |-> <<>>]
Fields ==
    {Field("loc", "A"), Field("loc", "B"), Field("lastmod", "D"),
     Field("changefreq", "daily"), Field("priority", "1")}

\* <url> or <sitemap> with the elements in it
Entry(tag, items) == [tag |-> tag, text |-> "", items |-> items]
InnerEntries ==
    {Entry(tag, fs) : tag \in {"url", "sitemap"}, fs \in SeqsUpTo(Fields, MaxFields)}
OuterEntries ==
    {Entry(tag, is) : tag \in {"url", "sitemap"},
                      is \in SeqsUpTo(Fields \cup InnerEntries, MaxFields)}

\* what stands under <urlset>: an entry, with or without an element before it
NestedDocuments ==
    {<<e>> : e \in OuterEntries}
    \cup {<<b, e>> : b \in Fields \cup {Entry(tag, <<f>>) : tag \in {"url", "sitemap"}, f \in Fields},
                      e \in OuterEntries}

RECURSIVE NodeEvents(_)
RECURSIVE NodesEvents(_)
\* the events the reader gives for an element
NodeEvents(n) ==
    <<Start(n.tag)>>
    \o (IF n.text # "" THEN <<Event("Text", "", n.text)>> ELSE <<>>)
    \o NodesEvents(n.items)
    \o <<End(n.tag)>>
NodesEvents(ns) ==
    IF ns = <<>> THEN <<>> ELSE NodeEvents(Head(ns)) \o NodesEvents(Tail(ns))

\* what read_event_into gives for <urlset> nodes </urlset>
NestedEvents(ns) ==
    <<Start("urlset")>> \o NodesEvents(ns) \o <<End("urlset"), Event("Eof", "", "")>>

\* sitemap.rs 34-129
parse_nested(ns) == parse_loop(NestedEvents(ns), 1, InitialState)

InitNestedVars ==
    /\ nestedDoc \in NestedDocuments
    /\ nestedParsed = NotParsed

IdleNested ==
    /\ nestedDoc = <<>>
    /\ nestedParsed = NotParsed

ParseNested ==
    /\ nestedParsed = NotParsed
    /\ nestedParsed' = parse_nested(nestedDoc)
    /\ UNCHANGED nestedDoc
    /\ UNCHANGED notNestedVars

NextNested == ParseNested

-----------------------------------------------------------------------------
(* expr_to_json: the reduction of a JS initialiser to a JSON value         *)

\* swc Expr: a string or number literal, an expression that is no literal
\* (an identifier, a call), an object literal with its props
Expr(kind, lit, props) == [kind |-> kind, lit |-> lit, props |-> props]
LeafExprs == {Expr("str", "s", <<>>), Expr("num", "1", <<>>), Expr("ident", "", <<>>)}

\* swc PropOrSpread: a key: value property with its PropName kind, or a spread
Prop(kind, key_kind, key, value) ==
    [kind |-> kind, key_kind |-> key_kind, key |-> key, value |-> value]
PropsOver(values) ==
    {Prop("keyvalue", kk, k, v) : kk \in {"ident", "str", "computed"}, k \in {"a", "b"}, v \in values}
    \cup {Prop("keyvalue", "num", "1", Expr("str", "s", <<>>)),
          Prop("spread", "", "", Expr("ident", "", <<>>))}

\* object literals with literal and non-literal values
InnerObjects ==
    {Expr("object", "", <<>>),
     Expr("object", "", <<Prop("keyvalue", "ident", "a", Expr("str", "s", <<>>))>>),
     Expr("object", "", <<Prop("keyvalue", "ident", "a", Expr("ident", "", <<>>))>>)}
Initialisers ==
    LeafExprs
    \cup {Expr("object", "", ps) : ps \in SeqsUpTo(PropsOver(LeafExprs \cup InnerObjects), MaxProps)}

\* serde_json values: a string, a number, an object as a map from its keys
JsJson(kind, lit, fields) == [kind |-> kind, lit |-> lit, fields |-> fields]

\* extractors.rs 1002-1009
prop_name_to_string(p) ==
    IF p.key_kind \in {"ident", "str", "num"} THEN Some(p.key) ELSE None

RECURSIVE expr_to_json(_)
RECURSIVE object_loop(_, _, _)
\* extractors.rs 910-920: the loop over obj.props; each `?` returns None from
\* expr_to_json
object_loop(props, i, map) ==
    IF i > Len(props) THEN Some(JsJson("object", "", map))
    ELSE IF props[i].kind # "keyvalue" THEN object_loop(props, i + 1, map)
    ELSE LET key == prop_name_to_string(props[i])
         IN IF key = None THEN None
            ELSE LET value == expr_to_json(props[i].value)
                 IN IF value = None THEN None
                    ELSE object_loop(props, i + 1, insert(map, key[2], value[2]))

\* extractors.rs 888-983, for the expressions of the model
expr_to_json(expr) ==
    CASE expr.kind = "str" -> Some(JsJson("string", expr.lit, EmptyMap))
      [] expr.kind = "num" -> Some(JsJson("number", expr.lit, EmptyMap))
      [] expr.kind = "object" -> object_loop(expr.props, 1, EmptyMap)
      [] OTHER -> None

NotRun == <<"not run">>

InitJsVars ==
    /\ jsInit \in Initialisers
    /\ jsBound = NotRun

IdleJs ==
    /\ jsInit = Expr("ident", "", <<>>)
    /\ jsBound = NotRun

\* extractors.rs 860-871: var name = init; the binding is inserted when the
\* initialiser reduces
ExtractVar ==
    /\ jsBound = NotRun
    /\ jsBound' = expr_to_json(jsInit)
    /\ UNCHANGED jsInit
    /\ UNCHANGED notJsVars

NextJs == ExtractVar

-----------------------------------------------------------------------------
(* extract_microdata: nested scopes and their properties                   *)

\* an element: its parent (0: none), whether it has itemscope and itemtype,
\* and its itemprop attribute ("": none)
Node(parent, itemscope, itemtype, itemprop) ==
    [parent |-> parent, itemscope |-> itemscope, itemtype |-> itemtype, itemprop |-> itemprop]

NodeKinds ==
    {Node(0, TRUE, t, pr) : t \in {"https://schema.org/Product", "Offer"}, pr \in {"", "offers"}}
    \cup {Node(0, FALSE, "", pr) : pr \in {"", "name", "price"}}

\* the ancestors of element i, nearest first
RECURSIVE Ancestors(_, _)
Ancestors(nodes, i) ==
    IF nodes[i].parent = 0 THEN <<>>
    ELSE <<nodes[i].parent>> \o Ancestors(nodes, nodes[i].parent)

InSeq(seq) == {seq[i] : i \in DOMAIN seq}

\* the documents of n elements: element i hangs under the root, under
\* element i - 1 or under an ancestor of element i - 1 (document order)
RECURSIVE DocumentsOf(_)
DocumentsOf(n) ==
    IF n = 0 THEN {<<>>}
    ELSE {Append(d, [k EXCEPT !.parent = q]) :
            d \in DocumentsOf(n - 1), k \in NodeKinds,
            q \in 0..(n - 1)} \ {<<>>}

WellNested(nodes) ==
    \A i \in DOMAIN nodes :
        \/ nodes[i].parent = 0
        \/ i > 1 /\ nodes[i].parent \in {i - 1} \cup InSeq(Ancestors(nodes, i - 1))

ScopeDocuments ==
    {d \in UNION {DocumentsOf(n) : n \in 1..MaxNodes} : WellNested(d)}

\* element.select("[itemprop]"): the descendants of e that have itemprop, in
\* document order
PropElements(nodes, e) ==
    SelectSeq([i \in DOMAIN nodes |-> i],
              LAMBDA i : nodes[i].itemprop # "" /\ e \in InSeq(Ancestors(nodes, i)))

RECURSIVE props_loop(_, _, _, _)
\* extractors.rs 357-371: props.insert(prop_name, value) for each of them;
\* the value is named by the element it is read from
props_loop(nodes, found, i, props) ==
    IF i > Len(found) THEN props
    ELSE props_loop(nodes, found, i + 1, insert(props, nodes[found[i]].itemprop, found[i]))

RECURSIVE scopes_loop(_, _, _)
\* extractors.rs 346-376: the loop over document.select("[itemscope][itemtype]")
scopes_loop(nodes, e, collected) ==
    IF e > Len(nodes) THEN collected
    ELSE scopes_loop(nodes, e + 1,
            IF nodes[e].itemscope
            THEN push(collected, last_segment(nodes[e].itemtype),
                      [at |-> e, props |-> props_loop(nodes, PropElements(nodes, e), 1, EmptyMap)])
            ELSE collected)

InitScopeVars ==
    /\ mdDoc \in ScopeDocuments
    /\ mdIndex = NotBuilt

IdleScope ==
    /\ mdDoc = <<>>
    /\ mdIndex = NotBuilt

\* extractors.rs 76, 342-383: extract_all builds the microdata index
BuildMicrodata ==
    /\ mdIndex = NotBuilt
    /\ mdIndex' = scopes_loop(mdDoc, 1, EmptyMap)
    /\ UNCHANGED mdDoc
    /\ UNCHANGED notScopeVars

NextScope == BuildMicrodata

-----------------------------------------------------------------------------
(* extract_all: values and expanded_values                                 *)

\* what extract_single gives for a spec: nothing, or a text that is a JSON
\* array, a JSON object with an array under "a", a JSON number, or no JSON
RawValues == {None, Some("[1,2]"), Some("{\"a\":[1]}"), Some("5"), Some("oops")}

\* the fields of ExtractSpec (extractors.rs 19-51) that extract_all reads
AllSpecs ==
    [alias : {"x", "y"}, is_json_cast : BOOLEAN, expand_array : BOOLEAN,
     json_path : {None, Some("->a")}, raw : RawValues]

\* serde_json::Value with its compact text; an array has its elements
Json(kind, text, items) == [kind |-> kind, text |-> text, items |-> items]

\* serde_json::from_str on the texts of the model (None: Err)
from_str(raw) ==
    CASE raw = "[1,2]" -> Some(Json("array", raw, <<"1", "2">>))
      [] raw = "{\"a\":[1]}" -> Some(Json("object", raw, <<>>))
      [] raw = "5" -> Some(Json("number", raw, <<>>))
      [] OTHER -> None

\* extractors.rs 165-213 for the path ->a: Value::get("a")
navigate_json_path(value, path) ==
    IF value.kind = "object" THEN Some(Json("array", "[1]", <<"1">>)) ELSE None

ExtractionResult(values, expanded_values) ==
    [values |-> values, expanded_values |-> expanded_values]

\* extractors.rs 92-159: one round of the loop, for a spec and its raw value
spec_step(spec, res) ==
    LET none == ExtractionResult(insert(res.values, spec.alias, None), res.expanded_values)
    IN IF spec.is_json_cast \/ spec.expand_array
       THEN IF spec.raw # None
            THEN LET parsed_value == from_str(spec.raw[2])
                 IN IF parsed_value # None
                    THEN LET target == IF spec.json_path # None
                                       THEN navigate_json_path(parsed_value[2], spec.json_path[2])
                                       ELSE parsed_value
                         IN IF target # None
                            THEN IF spec.expand_array /\ target[2].kind = "array"
                                 THEN ExtractionResult(
                                        insert(res.values, spec.alias, None),
                                        insert(res.expanded_values, spec.alias, target[2].items))
                                 ELSE ExtractionResult(
                                        insert(res.values, spec.alias, Some(target[2].text)),
                                        res.expanded_values)
                            ELSE none
                    ELSE ExtractionResult(insert(res.values, spec.alias, spec.raw),
                                          res.expanded_values)
            ELSE none
       ELSE ExtractionResult(insert(res.values, spec.alias, spec.raw), res.expanded_values)

RECURSIVE specs_loop(_, _, _)
\* extractors.rs 80-159
specs_loop(specs, i, res) ==
    IF i > Len(specs) THEN res
    ELSE specs_loop(specs, i + 1, spec_step(specs[i], res))

\* extractors.rs 69-162
extract_all(specs) == specs_loop(specs, 1, ExtractionResult(EmptyMap, EmptyMap))

NotExtractedAll == ExtractionResult(NotBuilt, NotBuilt)

InitAllVars ==
    /\ eaSpecs \in SeqsUpTo(AllSpecs, MaxSpecs)
    /\ eaResult = NotExtractedAll

IdleAll ==
    /\ eaSpecs = <<>>
    /\ eaResult = NotExtractedAll

ExtractAll ==
    /\ eaResult = NotExtractedAll
    /\ eaResult' = extract_all(eaSpecs)
    /\ UNCHANGED eaSpecs
    /\ UNCHANGED notAllVars

NextAll == ExtractAll

-----------------------------------------------------------------------------
(* Specifications *)

InitCrawl == IdlePool /\ IdleRobots /\ IdleSitemap /\ IdleDelay /\ IdleBoundary /\ IdleCoalesce /\ IdleIndex /\ IdleText /\ IdleParse /\ IdleJs /\ IdleScope /\ IdleAll /\ IdleNested /\ InitCrawlVars
SpecCrawl == InitCrawl /\ [][NextCrawl]_vars

\* The tokio runtime polls every future that can go on, the tokio mutex hands
\* the lock to a waiter once it is free, the clock advances, and every HTTP
\* call answers or times out: a step that can be taken is taken.
SpecCrawlFair == SpecCrawl /\ WF_vars(NextCrawl)

InitPoolOnly == IdleCrawlVars /\ IdleRobots /\ IdleSitemap /\ IdleDelay /\ IdleBoundary /\ IdleCoalesce /\ IdleIndex /\ IdleText /\ IdleParse /\ IdleJs /\ IdleScope /\ IdleAll /\ IdleNested /\ InitPool
SpecPool == InitPoolOnly /\ [][NextPool]_vars

InitRobots == IdleCrawlVars /\ IdlePool /\ IdleSitemap /\ IdleDelay /\ IdleBoundary /\ IdleCoalesce /\ IdleIndex /\ IdleText /\ IdleParse /\ IdleJs /\ IdleScope /\ IdleAll /\ IdleNested /\ InitRobotsVars
SpecRobots == InitRobots /\ [][NextRobots]_vars

InitSitemap == IdleCrawlVars /\ IdlePool /\ IdleRobots /\ IdleDelay /\ IdleBoundary /\ IdleCoalesce /\ IdleIndex /\ IdleText /\ IdleParse /\ IdleJs /\ IdleScope /\ IdleAll /\ IdleNested /\ InitSitemapVars(FetchRequests)
SpecSitemap == InitSitemap /\ [][NextSitemap]_vars

InitDiscover == IdleCrawlVars /\ IdlePool /\ IdleRobots /\ IdleDelay /\ IdleBoundary /\ IdleCoalesce /\ IdleIndex /\ IdleText /\ IdleParse /\ IdleJs /\ IdleScope /\ IdleAll /\ IdleNested /\ InitSitemapVars(DiscoverRequests)
SpecDiscover == InitDiscover /\ [][NextSitemap]_vars

InitRoots == IdleCrawlVars /\ IdlePool /\ IdleRobots /\ IdleDelay /\ IdleBoundary /\ IdleCoalesce /\ IdleIndex /\ IdleText /\ IdleParse /\ IdleJs /\ IdleScope /\ IdleAll /\ IdleNested /\ InitSitemapVars(RootsRequests)
SpecRoots == InitRoots /\ [][NextSitemap]_vars

\* The sitemap operation is sequential blocking code and every HTTP call has
\* a timeout: a step that can be taken is taken.
SpecSitemapFair == SpecSitemap /\ WF_vars(NextSitemap)

InitDelay == IdleCrawlVars /\ IdlePool /\ IdleRobots /\ IdleSitemap /\ IdleBoundary /\ IdleCoalesce /\ IdleIndex /\ IdleText /\ IdleParse /\ IdleJs /\ IdleScope /\ IdleAll /\ IdleNested /\ InitDelayVars
SpecDelay == InitDelay /\ [][NextDelay]_vars

InitBoundary == IdleCrawlVars /\ IdlePool /\ IdleRobots /\ IdleSitemap /\ IdleDelay /\ IdleCoalesce /\ IdleIndex /\ IdleText /\ IdleParse /\ IdleJs /\ IdleScope /\ IdleAll /\ IdleNested /\ InitBoundaryVars
SpecBoundary == InitBoundary /\ [][NextBoundary]_vars

InitCoalesce == IdleCrawlVars /\ IdlePool /\ IdleRobots /\ IdleSitemap /\ IdleDelay /\ IdleBoundary /\ IdleIndex /\ IdleText /\ IdleParse /\ IdleJs /\ IdleScope /\ IdleAll /\ IdleNested /\ InitCoalesceVars
SpecCoalesce == InitCoalesce /\ [][NextCoalesce]_vars

InitIndex == IdleCrawlVars /\ IdlePool /\ IdleRobots /\ IdleSitemap /\ IdleDelay /\ IdleBoundary /\ IdleCoalesce /\ IdleText /\ IdleParse /\ IdleJs /\ IdleScope /\ IdleAll /\ IdleNested /\ InitIndexVars
SpecIndex == InitIndex /\ [][NextIndex]_vars

InitText == IdleCrawlVars /\ IdlePool /\ IdleRobots /\ IdleSitemap /\ IdleDelay /\ IdleBoundary /\ IdleCoalesce /\ IdleIndex /\ IdleParse /\ IdleJs /\ IdleScope /\ IdleAll /\ IdleNested /\ InitTextVars
SpecText == InitText /\ [][NextText]_vars

InitParse == IdleCrawlVars /\ IdlePool /\ IdleRobots /\ IdleSitemap /\ IdleDelay /\ IdleBoundary /\ IdleCoalesce /\ IdleIndex /\ IdleText /\ IdleJs /\ IdleScope /\ IdleAll /\ IdleNested /\ InitParseVars
SpecParse == InitParse /\ [][NextParse]_vars

InitJs == IdleCrawlVars /\ IdlePool /\ IdleRobots /\ IdleSitemap /\ IdleDelay /\ IdleBoundary /\ IdleCoalesce /\ IdleIndex /\ IdleText /\ IdleParse /\ IdleScope /\ IdleAll /\ IdleNested /\ InitJsVars
SpecJs == InitJs /\ [][NextJs]_vars

InitScope == IdleCrawlVars /\ IdlePool /\ IdleRobots /\ IdleSitemap /\ IdleDelay /\ IdleBoundary /\ IdleCoalesce /\ IdleIndex /\ IdleText /\ IdleParse /\ IdleJs /\ IdleAll /\ IdleNested /\ InitScopeVars
SpecScope == InitScope /\ [][NextScope]_vars

InitAll == IdleCrawlVars /\ IdlePool /\ IdleRobots /\ IdleSitemap /\ IdleDelay /\ IdleBoundary /\ IdleCoalesce /\ IdleIndex /\ IdleText /\ IdleParse /\ IdleJs /\ IdleScope /\ IdleNested /\ InitAllVars
SpecAll == InitAll /\ [][NextAll]_vars

InitNested == IdleCrawlVars /\ IdlePool /\ IdleRobots /\ IdleSitemap /\ IdleDelay /\ IdleBoundary /\ IdleCoalesce /\ IdleIndex /\ IdleText /\ IdleParse /\ IdleJs /\ IdleScope /\ IdleAll /\ InitNestedVars
SpecNested == InitNested /\ [][NextNested]_vars

-----------------------------------------------------------------------------
(* Claims about the batch crawl *)

\* C1: at every moment the number of futures that have started and not yet
\* completed, those sleeping for the pacing included, is at most
\* min(max(concurrency, 1), 32), for every requested concurrency.
C1_ConcurrencyBound ==
    PoolInFlight <= (IF pool.concurrency < 1 THEN 1
                     ELSE IF pool.concurrency > 32 THEN 32
                     ELSE pool.concurrency)

\* C1 witness: a request above the cap with more URLs than the cap; 32
\* futures run, one of them still in its pacing, and URLs are left waiting.
C1_Witness ==
    /\ pool.concurrency = 40
    /\ PoolInFlight = 32
    /\ pool.pacing > 0
    /\ pool.queued > 0

Abs(x) == IF x < 0 THEN -x ELSE x

\* C2: with delay_ms > 0 and concurrency in 1..32, any two GETs sent to the
\* same lowercased host are sent at least delay_ms apart.
C2_PerHostPacing ==
    (request.delay_ms > 0 /\ request.concurrency \in 1..32) =>
        \A t1, t2 \in Tasks :
            ( /\ t1 # t2
              /\ dispatched[t1] # NoTime
              /\ dispatched[t2] # NoTime
              /\ extract_domain(request.urls[t1]) = extract_domain(request.urls[t2]) )
            => Abs(dispatched[t1] - dispatched[t2]) >= request.delay_ms

\* number of positions of sequence s whose element satisfies the url u
CountUrl(s, u) == Cardinality({i \in DOMAIN s : s[i] = u})
CountResultUrl(s, u) == Cardinality({i \in DOMAIN s : s[i].url = u})

\* C4: a batch over n URLs returns exactly n results, one per input URL and
\* carrying that URL, whatever mix of failures occurs; while the batch runs,
\* every future that ended has its result in the list.
C4_OneResultPerUrl ==
    /\ Len(results) = Cardinality({t \in Tasks : pc[t] = "done"})
    /\ BatchDone =>
        /\ Len(results) = Len(request.urls)
        /\ \A u \in CrawlUrls : CountResultUrl(results, u) = CountUrl(request.urls, u)

\* C4 witness: a finished batch in which one send failed, one body read
\* failed and one URL was answered with a non-success status.
C4_Witness ==
    /\ BatchDone
    /\ \E i, j, k \in DOMAIN results :
        /\ results[i].error = "send" /\ results[i].status = 0
        /\ results[j].error = "body"
        /\ results[k].error = "none" /\ results[k].status = 404
        /\ results[i].url # results[k].url

\* every URL of the batch names the host ex.com, in one spelling or the other
SameHost == \A t \in Tasks : request.urls[t] \in {"http://EX.com/a", "http://ex.com/b"}

\* C20: with concurrency = 1 and delay_ms = d > 0 over k URLs of one host, any
\* two GETs are sent at least d apart, the batch ends no earlier than
\* (k - 1) * d after its start, and it returns all k results.
C20_SequentialPacing ==
    (request.concurrency = 1 /\ request.delay_ms > 0 /\ SameHost) =>
        /\ \A t1, t2 \in Tasks :
              (t1 # t2 /\ dispatched[t1] # NoTime /\ dispatched[t2] # NoTime)
              => Abs(dispatched[t1] - dispatched[t2]) >= request.delay_ms
        /\ BatchDone =>
              /\ now >= (NUrls - 1) * request.delay_ms
              /\ Len(results) = NUrls

\* C20 witness: a batch over both spellings of the host, finished at exactly
\* (k - 1) * d with every GET sent d after the one before
C20_Witness ==
    /\ request.concurrency = 1
    /\ request.delay_ms = MaxDelay
    /\ SameHost
    /\ \E t \in Tasks : request.urls[t] = "http://ex.com/b"
    /\ BatchDone
    /\ now = (NUrls - 1) * MaxDelay
    /\ \A t \in Tasks : dispatched[t] = (t - 1) * MaxDelay
    /\ Len(results) = NUrls

\* C21: the rate-limiter mutex is held by a task only while it looks up the
\* last timestamp of its host or inserts the new one; no task holds it while
\* it sleeps for the pacing, while its GET is out, or while it reads the body.
C21_MutexOnlyForMapAccess ==
    /\ mutex # 0 => pc[mutex] \in {"read", "insert"}
    /\ \A t \in Tasks : pc[t] \in {"read", "insert"} => mutex = t

\* C21 witness: one task sleeps, another has its GET out, and a third holds
\* the mutex
C21_Witness ==
    \E t1, t2, t3 \in Tasks :
        /\ pc[t1] = "sleep"
        /\ pc[t2] \in {"send", "body"}
        /\ pc[t3] = "read"
        /\ mutex = t3

\* C27: under fair scheduling, with HTTP calls that answer or time out, the
\* batch completes for every concurrency and delay_ms: every fetch ends and
\* its result is in the list; no task waits forever for the mutex or in its
\* pacing sleep.
C27_BatchCompletes == <>(BatchDone /\ Len(results) = NUrls)

\* C27 witness: a finished paced batch above the cap, in which a task had to
\* sleep after another task of its host
C27_Witness ==
    /\ BatchDone
    /\ Len(results) = NUrls
    /\ request.concurrency = 40
    /\ request.delay_ms = MaxDelay
    /\ \E t1, t2 \in Tasks : t1 # t2 /\ dispatched[t2] >= dispatched[t1] + MaxDelay

-----------------------------------------------------------------------------
(* Claims about the robots cache *)

\* the cache key the claims expect for a URL: its host in lower case
HostKey(u) ==
    IF u \in {"http://EX.com/private", "http://ex.com/b"} THEN "ex.com" ELSE ""

\* an entry that exists and is less than 3600 s old
Fresh(entry, t) == entry.fetched_at # NoTime /\ t - entry.fetched_at < 3600

\* a step in which check_blocking answers from the cache
CacheHitStep == last'.via = "cache" /\ caller' = caller

\* a step in which thread c gets the answer to its GET and returns
FetchReturnStep(c) == caller[c].pc = "fetching" /\ caller'[c].pc = "idle"

\* C3: for one RobotsCache and any interleaving of concurrent check_blocking
\* calls on one host, at most one robots.txt request is issued for that host
\* within 3600 s of the first one.
C3_OneRequestPerHostWithinTtl ==
    \A i, j \in DOMAIN robotsLog :
        ( /\ i < j
          /\ robotsLog[i].domain = robotsLog[j].domain
          /\ \A k \in 1..(i - 1) : robotsLog[k].domain # robotsLog[i].domain )
        => robotsLog[j].at - robotsLog[i].at >= 3600

\* C9: when the robots.txt fetch ends in a transport error or a non-2xx
\* status, check_blocking returns allowed = true, no crawl delay and no
\* sitemaps, and stores an entry with empty text; a later query answered from
\* that entry also gets allow-all, and no request is issued for it.
C9_FailedFetchAllowsAll ==
    [][ /\ \A c \in Callers :
            ( /\ FetchReturnStep(c)
              /\ (last'.resp.status < 200 \/ last'.resp.status >= 300) )
            => /\ last'.ret = [allowed |-> TRUE, crawl_delay |-> NoDelay, sitemaps |-> <<>>]
               /\ cache'[HostKey(caller[c].url)].robots_txt = <<>>
               /\ cache'[HostKey(caller[c].url)].fetched_at = rclock
        /\ ( CacheHitStep /\ cache[HostKey(last'.url)].robots_txt = <<>> )
            => /\ last'.ret = [allowed |-> TRUE, crawl_delay |-> NoDelay, sitemaps |-> <<>>]
               /\ robotsLog' = robotsLog
               /\ cache' = cache
      ]_vars

\* C9 witness: the server answered 404 with a body that would block the
\* agent; the call returned allow-all and the stored text is empty.
C9_Witness ==
    /\ last.via = "fetch"
    /\ last.resp.status = 404
    /\ last.resp.body = TextA
    /\ last.ua = "BadBot/2.0"
    /\ last.url = "http://EX.com/private"
    /\ last.ret = AllowAll
    /\ cache["ex.com"].robots_txt = NoText
    /\ cache["ex.com"].fetched_at = rclock

\* C10: a query for a host whose entry is less than 3600 s old issues no
\* request and evaluates allow-ness against the stored text with the query's
\* user agent; a query for a host whose entry is 3600 s old or older (or
\* absent) refetches, and the answer replaces the entry; hosts that differ
\* only in letter case share one entry.
C10_CacheTtl ==
    [][ /\ CacheHitStep =>
            /\ Fresh(cache[HostKey(last'.url)], rclock)
            /\ last'.ret.allowed =
                 robot_allowed(last'.ua, cache[HostKey(last'.url)].robots_txt, last'.url)
            /\ robotsLog' = robotsLog
            /\ cache' = cache
        /\ \A c \in Callers :
            (caller[c].pc = "idle" /\ caller'[c].pc = "fetching") =>
                /\ ~Fresh(cache[HostKey(caller'[c].url)], rclock)
                /\ robotsLog' = Append(robotsLog,
                                       [domain |-> HostKey(caller'[c].url), at |-> rclock])
        /\ \A c \in Callers :
            FetchReturnStep(c) =>
                /\ cache'[HostKey(caller[c].url)].fetched_at = rclock
                /\ cache'[HostKey(caller[c].url)].robots_txt \in {last'.resp.body, <<>>}
                /\ \A d \in CacheKeys \ {HostKey(caller[c].url)} : cache'[d] = cache[d]
        /\ \A d \in CacheKeys : d # "ex.com" => cache'[d].fetched_at = NoTime
      ]_vars

\* C10 witness: the entry fetched at 0 was used, was refetched at 3600 s, and
\* the new entry answers a query that spells the host in upper case.
C10_Witness ==
    /\ Len(robotsLog) = 2
    /\ robotsLog[1] = [domain |-> "ex.com", at |-> 0]
    /\ robotsLog[2] = [domain |-> "ex.com", at |-> 3600]
    /\ cache["ex.com"].fetched_at = 3600
    /\ last.via = "cache"
    /\ last.url = "http://EX.com/private"
    /\ last.ua = "BadBot/2.0"
    /\ last.ret.allowed = FALSE

\* C29: an answer from the cache carries the crawl_delay and the sitemaps
\* stored in the entry, which were computed for the user agent of the call
\* that fetched it, and only allowed is computed for the asking agent; the
\* answer leaves the cache as it is, so two agents asking about one host
\* within the lifetime of the entry get the same crawl_delay.
C29_HitReturnsStored ==
    [][ /\ CacheHitStep =>
            /\ last'.ret.crawl_delay = cache[HostKey(last'.url)].crawl_delay
            /\ last'.ret.sitemaps = cache[HostKey(last'.url)].sitemaps
            /\ last'.ret.allowed =
                 robot_allowed(last'.ua, cache[HostKey(last'.url)].robots_txt, last'.url)
            /\ cache' = cache
        /\ \A c \in Callers :
            FetchReturnStep(c) =>
                /\ cache'[HostKey(caller[c].url)].crawl_delay =
                     extract_crawl_delay(cache'[HostKey(caller[c].url)].robots_txt, caller[c].ua)
                /\ cache'[HostKey(caller[c].url)].sitemaps =
                     extract_sitemaps(cache'[HostKey(caller[c].url)].robots_txt)
      ]_vars

\* C29 witness: the entry holds the delay computed for another agent than
\* the one that asks; the answer carries that delay, and allowed is the
\* asking agent's
C29_Witness ==
    /\ last.via = "cache"
    /\ last.ua = "BadBot/2.0"
    /\ last.url = "http://EX.com/private"
    /\ last.ret.allowed = FALSE
    /\ last.ret.crawl_delay = cache["ex.com"].crawl_delay
    /\ last.ret.crawl_delay # extract_crawl_delay(cache["ex.com"].robots_txt, "BadBot/2.0")
    /\ last.ret.sitemaps # <<>>

-----------------------------------------------------------------------------
(* Claims about the sitemap fetch *)

\* the call on top of the stack is the outermost one and has its result:
\* fetch_sitemap_blocking is about to return it
BlockingReturns == Len(stack) = 1 /\ Finished(Top)

FetchedWithinDepth ==
    \A i \in DOMAIN fetchLog : fetchLog[i].depth <= smReq.max_depth

\* C5: with recursive fetching, a sitemap at depth max_depth that has child
\* references returns them, unfetched, in the sitemaps of its result: the
\* children lie beyond max_depth. (With max_depth = 0 and an index of two
\* children: no urls, both references in sitemaps.)
C5_BeyondDepthReturned ==
    (/\ stack # <<>>
     /\ Finished(Top)
     /\ smReq.recursive
     /\ Top.depth = smReq.max_depth
     /\ web[Top.url].kind = "ok")
    => /\ Top.result.urls = web[Top.url].urls
       /\ Top.result.sitemaps = web[Top.url].sitemaps
       /\ FetchedWithinDepth

\* the tree below u, met at depth d, lies within max_depth and every
\* sitemap of it can be fetched
RECURSIVE Within(_, _)
Within(u, d) ==
    /\ d <= smReq.max_depth
    /\ web[u].kind = "ok"
    /\ \A i \in DOMAIN web[u].sitemaps : Within(web[u].sitemaps[i].url, d + 1)

RECURSIVE ConcatAll(_)
ConcatAll(ss) == IF ss = <<>> THEN <<>> ELSE Head(ss) \o ConcatAll(Tail(ss))

\* the url entries of the tree below u: those of u, then those of each
\* child's tree in document order
RECURSIVE DfsUrls(_)
DfsUrls(u) ==
    web[u].urls \o
    ConcatAll([i \in DOMAIN web[u].sitemaps |-> DfsUrls(web[u].sitemaps[i].url)])

\* C6: for a sitemap whose whole tree lies within max_depth and whose
\* fetches all succeed, recursive fetching returns as urls the url entries of
\* the fetched sitemaps in depth-first order, and no sitemaps.
C6_DepthFirstUnion ==
    (BlockingReturns /\ smReq.recursive /\ Within(Top.url, 0))
    => /\ Top.result.urls = DfsUrls(Top.url)
       /\ Top.result.sitemaps = <<>>

\* a tree of height two with url entries at the root, returned
C6_Witness ==
    /\ BlockingReturns /\ smReq.recursive /\ Within(Top.url, 0)
    /\ web[Top.url].urls # <<>>
    /\ Len(web[Top.url].sitemaps) = 2
    /\ Len(web[web[Top.url].sitemaps[1].url].sitemaps) = 1
    /\ Len(Top.result.urls) = 4

\* C7: fetch_sitemap_blocking terminates on every sitemap graph, cyclic ones
\* included, and never fetches at a depth greater than max_depth.
C7_TerminatesWithinDepth ==
    /\ []FetchedWithinDepth
    /\ <>(smPc = "done")

\* a sitemap that refers to itself was fetched at every depth up to max_depth
C7_Witness ==
    /\ smPc = "done"
    /\ smReq.recursive /\ smReq.max_depth = MaxDepth
    /\ web[smReq.url].sitemaps = <<IndexEntry(smReq.url)>>
    /\ Len(fetchLog) = MaxDepth + 1

\* the Sitemap entries of the robots.txt that was served
SitemapEntries ==
    IF smRobots.status \in 200..299 /\ smRobots.readable
    THEN LET lines == SelectSeq(smRobots.body,
                                LAMBDA l : l.k \in {"Sitemap", "SITEMAP", "sitemap"})
         IN [i \in DOMAIN lines |-> lines[i].v]
    ELSE <<>>

\* the URLs that fetch_sitemap_blocking was called with, in order
RootsFetched ==
    LET top == SelectSeq(fetchLog, LAMBDA e : e.depth = 0)
    IN [i \in DOMAIN top |-> top[i].url]

\* C8: with discover_from_robots the sitemaps to fetch are the Sitemap
\* entries of robots.txt when there is one, and the request URL alone
\* otherwise (also when robots.txt cannot be fetched); without
\* discover_from_robots robots.txt is never requested and the request URL
\* alone is fetched.
C8_DiscoveredSitemaps ==
    /\ smPc \in {"roots", "done"} =>
         IF smReq.discover_from_robots
         THEN /\ smRobots # NoResponse
              /\ roots = IF SitemapEntries # <<>> THEN SitemapEntries ELSE <<smReq.url>>
         ELSE /\ smRobots = NoResponse
              /\ roots = <<smReq.url>>
    /\ smPc = "done" => RootsFetched = roots

\* robots.txt named two sitemaps, in two spellings of the directive, and
\* both were fetched
C8_Witness ==
    /\ smPc = "done"
    /\ smReq.discover_from_robots
    /\ Len(SitemapEntries) = 2
    /\ RootsFetched = SitemapEntries
    /\ smReq.url \notin {RootsFetched[i] : i \in DOMAIN RootsFetched}

NoDuplicates(seq) == \A i, j \in DOMAIN seq : i # j => seq[i] # seq[j]

\* C22: within one recursive traversal every sitemap URL is fetched at most
\* once, so an index that lists itself, or a cycle of indexes, gives neither a
\* repeated fetch of a URL nor a duplicated entry in urls.
C22_FetchedAtMostOnce ==
    /\ NoDuplicates([i \in DOMAIN fetchLog |-> fetchLog[i].url])
    /\ BlockingReturns => NoDuplicates(Top.result.urls)

\* what the traversal from u, met at depth d, owes: nothing past max_depth,
\* the one message of a failed fetch, and for a document its url entries
\* followed by what each child owes, in document order
RECURSIVE Owed(_, _)
RECURSIVE OwedAll(_, _)
OwedAll(entries, d) ==
    IF entries = <<>> THEN EmptyResult
    ELSE Extend(Owed(Head(entries).url, d), OwedAll(Tail(entries), d))
Owed(u, d) ==
    IF d > smReq.max_depth THEN EmptyResult
    ELSE IF web[u].kind # "ok"
         THEN SitemapResult(<<>>, <<>>, <<FetchError(web[u].kind, u)>>)
         ELSE IF smReq.recursive /\ web[u].sitemaps # <<>>
              THEN Extend(SitemapResult(web[u].urls, <<>>, <<>>), OwedAll(web[u].sitemaps, d + 1))
              ELSE SitemapResult(web[u].urls, web[u].sitemaps, <<>>)

FailedFetches == {i \in DOMAIN fetchLog : web[fetchLog[i].url].kind # "ok"}

\* C23: a failed sitemap fetch (transport error, non-2xx status, unreadable
\* body) adds exactly one message to errors and no urls; every sibling and
\* every later root is traversed all the same and its urls are in the
\* combined result.
C23_FailureIsLocal ==
    smPc = "done" =>
        /\ combined = OwedAll([i \in DOMAIN roots |-> IndexEntry(roots[i])], 0)
        /\ Len(combined.errors) = Cardinality(FailedFetches)

\* the first root failed, the second was read; its first child failed, its
\* second child was read and its url entry is in the result
C23_Witness ==
    /\ smPc = "done"
    /\ Len(roots) = 2
    /\ web[roots[1]].kind = "transport"
    /\ web[roots[2]].kind = "ok"
    /\ Len(web[roots[2]].sitemaps) = 2
    /\ web[web[roots[2]].sitemaps[1].url].kind = "http"
    /\ web[web[roots[2]].sitemaps[2].url].kind = "ok"
    /\ web[web[roots[2]].sitemaps[2].url].urls # <<>>
    /\ Len(combined.errors) = 2
    /\ combined.urls # <<>>

-----------------------------------------------------------------------------
(* Claims about the functions over robots.txt *)

\* the agent token of the section that line i of the text lies in ("" before
\* any User-agent line)
SectionToken(text, i) ==
    LET before == {j \in 1..(i - 1) : text[j].k \in {"User-agent", "User-Agent", "user-agent"}}
    IN IF before = {} THEN ""
       ELSE text[CHOOSE j \in before : \A j2 \in before : j2 <= j].v

\* the lines of the text that give a crawl delay
DelayLineIndexes(text) ==
    {i \in DOMAIN text : /\ text[i].k \in {"Crawl-delay", "crawl-delay"}
                         /\ text[i].v \in {"0", "1", "5", "9"}}

\* the token names the agent: a case-insensitive substring of it
TokenNames(token, agent) ==
    \/ token \in {"BadBot", "badbot"} /\ agent = "BadBot/2.0"
    \/ token \in {"GoodBot", "goodbot"} /\ agent = "GoodBot/1.0"

\* the first of the indexes in I, as the delay of that line (NoDelay: I is empty)
FirstDelay(text, I) ==
    IF I = {} THEN NoDelay
    ELSE LET i == CHOOSE i \in I : \A j \in I : i <= j
         IN CASE text[i].v = "0" -> 0 [] text[i].v = "1" -> 1
              [] text[i].v = "5" -> 5 [] text[i].v = "9" -> 9

\* C11: the crawl delay extracted is the Crawl-delay of the section whose
\* User-agent token names the agent; only when no such section has one is it
\* the Crawl-delay of the * section; a Crawl-delay that stands only in a
\* section for another agent is never returned.
C11_DelayOfMatchingSection ==
    rtDelay # NotCalled =>
        LET own == {i \in DelayLineIndexes(rtText) :
                        TokenNames(SectionToken(rtText, i), rtAgent)}
            star == {i \in DelayLineIndexes(rtText) : SectionToken(rtText, i) = "*"}
        IN rtDelay = IF own # {} THEN FirstDelay(rtText, own)
                     ELSE FirstDelay(rtText, star)

-----------------------------------------------------------------------------
(* Claims about the boundary *)

InputValid(op) ==
    /\ op \in {"extract_from_html", "extract_jsonld_ffi"} => bIn.html_utf8
    /\ op # "extract_jsonld_ffi" => bIn.request_utf8 /\ bIn.request_json_ok

\* a panic is raised inside the call: the input got the call to its work and
\* the work panics
PanicRaised ==
    /\ bOp # "" /\ InputValid(bOp) /\ bEnv.panics
    /\ bOp = "crawl_batch_ffi" => bEnv.client_ok /\ bEnv.runtime_ok

\* C12: a panic raised inside a boundary operation is caught at the boundary:
\* the call returns an envelope instead of unwinding into the caller.
C12_PanicCaught ==
    PanicRaised => bRet # Unwound

ExactlyOnePointer == bRet.json_ptr # bRet.error_ptr

Returned(ops) == bOp \in ops /\ bRet # Unwound

PointerOps == {"extract_from_html", "crawl_batch_ffi", "check_robots_ffi"}

\* C13 as stated: every return of extract_from_html, crawl_batch_ffi and
\* check_robots_ffi has exactly one of json_ptr and error_ptr set; non-UTF-8
\* input or malformed request JSON gives error_ptr and nothing is extracted or
\* requested; every other outcome gives json_ptr.
C13_AsStated ==
    Returned(PointerOps) =>
        /\ ExactlyOnePointer
        /\ ~InputValid(bOp) => bRet.error_ptr /\ bEffects = {}
        /\ InputValid(bOp) => bRet.json_ptr

\* something inside the call failed although the input was valid
InternalFailure ==
    \/ bOp = "crawl_batch_ffi" /\ ~(bEnv.client_ok /\ bEnv.runtime_ok)
    \/ bEnv.panics
    \/ ~bEnv.serialize_ok

\* C13 (amended): every return of extract_from_html, crawl_batch_ffi and
\* check_robots_ffi has exactly one of json_ptr and error_ptr set; non-UTF-8
\* input or malformed request JSON gives error_ptr and nothing is extracted or
\* requested; with valid input error_ptr is set exactly when the HTTP client
\* or the runtime cannot be built, a panic is caught or the result cannot be
\* serialised, and json_ptr is set otherwise.
C13_ExactlyOnePointer ==
    Returned(PointerOps) =>
        /\ ExactlyOnePointer
        /\ ~InputValid(bOp) => bRet.error_ptr /\ bEffects = {}
        /\ InputValid(bOp) => (bRet.error_ptr <=> InternalFailure)

\* both kinds of return happened: this one is a crawl that was refused
\* because the HTTP client could not be built
C13_Witness ==
    /\ Returned({"crawl_batch_ffi"})
    /\ InputValid(bOp) /\ ~bEnv.client_ok
    /\ bRet.error_ptr /\ ~bRet.json_ptr /\ bEffects = {}

-----------------------------------------------------------------------------
(* Claims about extract_single *)

\* the positions of the specs in xSpec: the spec itself, its alternatives,
\* and theirs
Positions ==
    {<<>>}
    \cup {<<i>> : i \in DOMAIN xSpec.alternatives}
    \cup UNION {{<<i, j>> : j \in DOMAIN xSpec.alternatives[i].alternatives} :
                    i \in DOMAIN xSpec.alternatives}

SpecAt(p) ==
    CASE Len(p) = 0 -> xSpec
      [] Len(p) = 1 -> xSpec.alternatives[p[1]]
      [] Len(p) = 2 -> xSpec.alternatives[p[1]].alternatives[p[2]]

\* p comes before q when a spec is read primary first, then each alternative
\* in list order
Before(p, q) ==
    \/ Len(p) < Len(q) /\ p = SubSeq(q, 1, Len(p))
    \/ \E k \in 1..Min(Len(p), Len(q)) :
          /\ SubSeq(p, 1, k - 1) = SubSeq(q, 1, k - 1)
          /\ p[k] < q[k]

Yielding == {p \in Positions : SpecAt(p).yields}

FirstYielding == CHOOSE p \in Yielding : \A q \in Yielding \ {p} : Before(p, q)

\* C14: if the primary yields a value it is returned and no alternative is
\* evaluated; if not, the alternatives are evaluated in list order, each with
\* its own alternatives, and the first value found is returned; if there is
\* none the result is null.
C14_FirstNonNull ==
    xCalled =>
        /\ xSpec.yields => xResult = Some(<<>>) /\ xEvaluated = <<<<>>>>
        /\ Yielding = {} => xResult = None
        /\ Yielding # {} => xResult = Some(FirstYielding)
        /\ \A i, j \in DOMAIN xEvaluated : i < j => Before(xEvaluated[i], xEvaluated[j])
        /\ {xEvaluated[i] : i \in DOMAIN xEvaluated} =
               {p \in Positions : Yielding # {} => p = FirstYielding \/ Before(p, FirstYielding)}

\* the value came from an alternative of the second alternative, after the
\* first alternative and its own alternative gave nothing
C14_Witness ==
    /\ xCalled
    /\ xResult = Some(<<2, 1>>)
    /\ xEvaluated = << <<>>, <<1>>, <<1, 1>>, <<2>>, <<2, 1>> >>
    /\ Len(xSpec.alternatives[2].alternatives) = 2

-----------------------------------------------------------------------------
(* Claims about the indexes *)

\* the type names an @type value gives, schema.org prefix dropped
TypeNames(types) ==
    {IF types[i] \in {"https://schema.org/Product", "http://schema.org/Product"}
     THEN "Product" ELSE types[i] : i \in DOMAIN types}

\* the JSON-LD objects of the document as position and type names: the
\* blocks that are objects, and the objects among the elements of a block
\* that is an array or has an @graph
JsonldItems ==
    {[at |-> <<b>>, names |-> TypeNames(html.scripts[b].types)] :
        b \in {b \in DOMAIN html.scripts : html.scripts[b].kind = "object"}}
    \cup UNION {
        {[at |-> <<b, i>>, names |-> TypeNames(html.scripts[b].items[i].types)] :
            i \in {i \in DOMAIN html.scripts[b].items :
                        html.scripts[b].items[i].kind = "object"}} :
        b \in {b \in DOMAIN html.scripts :
                  \/ html.scripts[b].kind = "array"
                  \/ html.scripts[b].kind = "object" /\ html.scripts[b].has_graph}}

MicrodataItems ==
    {[at |-> <<i>>,
      names |-> {IF html.scopes[i] = "https://schema.org/Product" THEN "Product"
                 ELSE html.scopes[i]}] :
        i \in {i \in DOMAIN html.scopes : html.scopes[i] # "none"}}

\* the item at p ends before the item at q in the document: it lies in an
\* earlier block, or earlier in the same array, or inside the @graph of q
EndsBefore(p, q) ==
    \/ p[1] < q[1]
    \/ p[1] = q[1] /\ Len(p) = 2 /\ Len(q) = 2 /\ p[2] < q[2]
    \/ p[1] = q[1] /\ Len(p) = 2 /\ Len(q) = 1

Arrayified(index, items) ==
    /\ DOMAIN index = UNION {it.names : it \in items}
    /\ \A k \in DOMAIN index :
          /\ DOMAIN index[k] = 1..Len(index[k])
          /\ Len(index[k]) >= 1
          /\ {index[k][i] : i \in DOMAIN index[k]} = {it.at : it \in {it \in items : k \in it.names}}
          /\ \A i, j \in DOMAIN index[k] : i < j => EndsBefore(index[k][i], index[k][j])

ContentsOf(property) ==
    LET tags == SelectSeq(html.metas, LAMBDA m : m.property = property)
    IN [i \in DOMAIN tags |-> OgString(tags[i].content)]

ListedWhenRepeated(index) ==
    \A key \in {"image", "title"} :
        LET contents == ContentsOf(IF key = "image" THEN "og:image" ELSE "og:title")
        IN Len(contents) >= 2 => key \in DOMAIN index /\ index[key] = OgArray(contents)

\* C16: when several og: meta tags share one simple key, the og index holds
\* for that key the list of all their contents in document order; no earlier
\* value is overwritten.
C16_RepeatedKeysListed ==
    /\ og # NotBuilt => ListedWhenRepeated(og)
    /\ ogGrouped # NotBuilt => ListedWhenRepeated(ogGrouped)

\* C25: for a key with one scalar tag (og:image = URL) and sub-property tags
\* (og:image:width = 1200) the og index holds the object
\* {_value: URL, width: "1200"}, whichever tag comes first; the scalar is
\* neither lost nor made a list element beside the sub-property object.
C25_ScalarAndSubProperty ==
    LET scalars == SelectSeq(html.metas, LAMBDA m : m.property = "og:image")
        widths == SelectSeq(html.metas, LAMBDA m : m.property = "og:image:width")
    IN (ogGrouped # NotBuilt /\ Len(scalars) = 1 /\ Len(widths) >= 1) =>
          /\ "image" \in DOMAIN ogGrouped
          /\ ogGrouped["image"] =
                OgObject(("_value" :> scalars[1].content)
                         @@ ("width" :> widths[Len(widths)].content))

-----------------------------------------------------------------------------
(* Claims about value_to_string *)

\* C17: for every source, with return_text false the value is returned as
\* canonical JSON (a string quoted); with return_text true a string is
\* returned raw, a null gives no value, any other value is canonical JSON.
C17_ReturnTextPolicy ==
    tOut # NotExtracted =>
        IF ~tSpec.return_text THEN tOut = Some(to_string(tFound))
        ELSE CASE tFound.kind = "string" -> tOut = Some(tFound.chars)
               [] tFound.kind = "null" -> tOut = None
               [] OTHER -> tOut = Some(to_string(tFound))

-----------------------------------------------------------------------------
(* Claims about parse_sitemap *)

\* the content of the loc child of an element, "" when it has none or an
\* empty one
LocOf(e) ==
    IF \E i \in DOMAIN e.children : e.children[i].tag = "loc" /\ e.children[i].kind # "none"
    THEN e.children[CHOOSE i \in DOMAIN e.children :
                        e.children[i].tag = "loc" /\ e.children[i].kind # "none"].text
    ELSE ""

\* the locs of the closed <tag> elements of the document that have a
\* non-empty loc, in document order
LocsOf(tag) ==
    LET entries == SelectSeq(xml.elements,
                             LAMBDA e : e.tag = tag /\ ~e.self_closing /\ LocOf(e) # "")
    IN [i \in DOMAIN entries |-> LocOf(entries[i])]

UrlsOf(entries) == [i \in DOMAIN entries |-> entries[i].url]

\* C18: for a well-formed document, urls holds one entry per closed <url>
\* with a non-empty loc and sitemaps one per closed <sitemap> with a non-empty
\* loc, in document order; elements without loc or with an empty loc and
\* unknown elements add nothing.
C18_OneEntryPerLoc ==
    (parsed # NotParsed /\ xml.broken_at = 0) =>
        /\ UrlsOf(parsed.urls) = LocsOf("url")
        /\ UrlsOf(parsed.sitemaps) = LocsOf("sitemap")
        /\ parsed.errors = <<>>

\* the number of elements that are closed before the malformed markup
Completed ==
    Cardinality({j \in DOMAIN xml.elements :
                    1 + Len(ElementsEvents(SubSeq(xml.elements, 1, j))) < xml.broken_at})

\* what parse_sitemap gives for the elements closed before the malformed
\* markup alone
ResultOfCompleted ==
    parse_sitemap([elements |-> SubSeq(xml.elements, 1, Completed), broken_at |-> 0])

-----------------------------------------------------------------------------
(* Claims about parse_sitemap on nested elements *)

\* the <url> elements of the document, at either depth
UrlElements ==
    {nestedDoc[i] : i \in {j \in DOMAIN nestedDoc : nestedDoc[j].tag = "url"}}
    \cup UNION {{nestedDoc[i].items[k] :
                    k \in {j \in DOMAIN nestedDoc[i].items : nestedDoc[i].items[j].tag = "url"}} :
                i \in DOMAIN nestedDoc}

\* the texts of the <tag> elements that stand in u itself, not in an entry
\* inside u
OwnTexts(u, tag) == {u.items[i].text : i \in {j \in DOMAIN u.items : u.items[j].tag = tag}}

\* every field of the entry e is absent or comes from a text of u itself
TakenFrom(e, u) ==
    /\ e.url \in OwnTexts(u, "loc")
    /\ e.lastmod \in {None} \cup {Some(t) : t \in OwnTexts(u, "lastmod")}
    /\ e.changefreq \in {None} \cup {Some(t) : t \in OwnTexts(u, "changefreq")}
    /\ e.priority \in {None} \cup {priority_of(t) : t \in OwnTexts(u, "priority")}

\* the document without the elements that stand outside every entry
InEntriesOnly == SelectSeq(nestedDoc, LAMBDA n : n.tag \in {"url", "sitemap"})

\* C30: every entry of urls takes its loc, lastmod, changefreq and priority
\* from the texts of one <url> element itself, nothing from an earlier element
\* or from an entry nested in it, and the text outside every entry changes
\* nothing.
C30_FieldsFromOwnElement ==
    nestedParsed # NotParsed =>
        /\ \A i \in DOMAIN nestedParsed.urls :
              \E u \in UrlElements : TakenFrom(nestedParsed.urls[i], u)
        /\ nestedParsed = parse_nested(InEntriesOnly)

-----------------------------------------------------------------------------
(* Claims about the JS-literal evaluator *)

Reducible(e) == e.kind \in {"str", "num", "object"}
Kept(p) == p.kind = "keyvalue" /\ p.key_kind # "computed" /\ Reducible(p.value)

\* the object an object literal stands for once every property with a
\* computed key or an unreducible value, and every spread, is left out
RECURSIVE Reduced(_)
Reduced(e) ==
    IF e.kind = "object"
    THEN LET kept == {i \in DOMAIN e.props : Kept(e.props[i])}
             keys == {e.props[i].key : i \in kept}
         IN JsJson("object", "",
                   [k \in keys |->
                        Reduced(e.props[CHOOSE i \in kept :
                                    /\ e.props[i].key = k
                                    /\ \A j \in kept : e.props[j].key = k => j <= i].value)])
    ELSE JsJson(IF e.kind = "str" THEN "string" ELSE "number", e.lit, EmptyMap)

\* C24: a declaration whose initialiser is an object literal yields a
\* binding; a property with an unreducible value or a computed key is left
\* out of it and every other key: value property is present.
C24_PropertyDropped ==
    (jsBound # NotRun /\ jsInit.kind = "object") => jsBound = Some(Reduced(jsInit))

-----------------------------------------------------------------------------
(* Claims about nested microdata *)

\* the innermost scope that encloses element i (0: none)
InnermostScope(i) ==
    LET scopes == SelectSeq(Ancestors(mdDoc, i), LAMBDA a : mdDoc[a].itemscope)
    IN IF scopes = <<>> THEN 0 ELSE scopes[1]

IndexedItems == UNION {InSeq(mdIndex[k]) : k \in DOMAIN mdIndex}

\* C26: a scope with a scope among its ancestors is not indexed as an item of
\* its own, and every property of an indexed item is read from an element
\* whose innermost enclosing scope is that item: the properties of a nested
\* scope are not properties of the enclosing item.
C26_InnermostScopeOwns ==
    mdIndex # NotBuilt =>
        \A item \in IndexedItems :
            /\ InnermostScope(item.at) = 0
            /\ \A name \in DOMAIN item.props : InnermostScope(item.props[name]) = item.at

-----------------------------------------------------------------------------
(* Claims about extract_all *)

Aliases == {eaSpecs[i].alias : i \in DOMAIN eaSpecs}

\* the last spec of the request with this alias: the one whose entry stands
LastSpec(alias) ==
    eaSpecs[CHOOSE i \in DOMAIN eaSpecs :
                /\ eaSpecs[i].alias = alias
                /\ \A j \in DOMAIN eaSpecs : eaSpecs[j].alias = alias => j <= i]

\* the value the spec parses to is an array
ParsesToArray(spec) ==
    \/ spec.raw = Some("[1,2]") /\ spec.json_path = None
    \/ spec.raw = Some("{\"a\":[1]}") /\ spec.json_path # None

\* C28: after extract_all the keys of values are the aliases of the specs; an
\* alias is a key of expanded_values only if its spec has expand_array and
\* parses to an array, and then values holds null for it; of two specs with
\* one alias the later one's entry stands.
C28_ValuesAndExpansions ==
    eaResult # NotExtractedAll =>
        /\ DOMAIN eaResult.values = Aliases
        /\ \A alias \in DOMAIN eaResult.expanded_values :
              /\ alias \in Aliases
              /\ LastSpec(alias).expand_array
              /\ ParsesToArray(LastSpec(alias))
              /\ eaResult.values[alias] = None

=============================================================================
